---- MODULE Spec2Model ----
(***************************************************************************)
(* Clovet: the recommendation pipeline of the web client                   *)
(* (wardrobeRecommendations.ts, geminiAnalysis.ts, devMode.ts) and    *)
(* the favorites routes of the Express server (routes/favorites.ts).       *)
(*                                                                         *)
(* Strings of the program are TLA+ strings; string building is \o and      *)
(* number formatting is ToString, so that a composed key is a string that  *)
(* can collide the way the program's can.                                  *)
(***************************************************************************)
EXTENDS Integers, Sequences, FiniteSets, TLC

VARIABLES
    \* ---- client: recommendation pipeline --------------------------------
    cfg,          \* build/runtime configuration: Gemini key, RapidAPI keys, external API switch
    world,        \* what the marketplace answers (chosen once per behaviour)
    wardrobe,     \* the user's wardrobe collection as GET /wardrobe returns it
    now,          \* Date.now(), in ms
    searchCache,  \* devMode.ts searchCache: cacheKey -> [data, timestamp]
    call,         \* one entry per invocation of generatePersonalizedRecommendations
    lastRec,      \* what saveCachedRecommendations was last handed, and when
    \* ---- server: favorites collection ------------------------------------
    favs,         \* the FavoriteItem collection, in insertion order
    nextOid,      \* number of the next ObjectId that is generated
    req,          \* the requests to /api/favorites, in order of arrival
    nodeEnv,      \* process.env.NODE_ENV of the server
    \* ---- removeDuplicates taken alone ------------------------------------
    ddIn, ddOut,
    \* ---- other functions taken alone: argument and result -----------------
    afIn, afOut,  \* applyFilters (SearchView.tsx)
    awIn, awOut,  \* analyzeWardrobeFeatures
    gqIn, gqOut,  \* generateSearchQueries (wardrobeRecommendations.ts)
    sqIn, sqOut,  \* sanitizeQuery
    \* ---- client: search view ---------------------------------------------
    sv            \* state of SearchView and of its handleSearch in progress

recVars == <<cfg, world, wardrobe, now, searchCache, call, lastRec>>
favVars == <<favs, nextOid, req, nodeEnv>>
ddVars  == <<ddIn, ddOut>>
fnVars  == <<afIn, afOut, awIn, awOut, gqIn, gqOut, sqIn, sqOut>>
svVars  == <<sv>>
vars    == <<cfg, world, wardrobe, now, searchCache, call, lastRec,
             favs, nextOid, req, nodeEnv, ddIn, ddOut,
             afIn, afOut, awIn, awOut, gqIn, gqOut, sqIn, sqOut, sv>>

Null == <<"#null">>    \* null, where a list is expected

(***************************************************************************)
(* Bounds of the model.                                                    *)
(***************************************************************************)
MaxWardrobeLen == 4    \* items of a wardrobe
MaxTicks    == 2    \* clock advances per behaviour
MaxRequests == 3    \* favorites requests per behaviour
MaxDedupLen == 3    \* length of the lists removeDuplicates is applied to on its own


(***************************************************************************)
(* Sequence helpers.                                                       *)
(***************************************************************************)
Min(a, b) == IF a <= b THEN a ELSE b

\* Array.prototype.slice(0, n)
Take(s, n) == SubSeq(s, 1, Min(n, Len(s)))

Range(s) == {s[i] : i \in DOMAIN s}

RECURSIVE FlatMap(_, _)
\* f is a function from elements to sequences
FlatMap(f, s) == IF s = <<>> THEN <<>> ELSE f[Head(s)] \o FlatMap(f, Tail(s))

RECURSIVE Distinct(_)
\* the distinct members of s, in order of first occurrence
Distinct(s) ==
    IF s = <<>> THEN <<>>
    ELSE LET init == Distinct(SubSeq(s, 1, Len(s) - 1))
             x    == s[Len(s)]
         IN  IF x \in Range(init) THEN init ELSE Append(init, x)

Count(s, x) == Cardinality({i \in DOMAIN s : s[i] = x})

(***************************************************************************)
(* String tables.  toLowerCase and extractKeywords work character by       *)
(* character; here they are tabulated over the words the model uses.       *)
(***************************************************************************)
LowerTable ==
    [c \in {"A", "B", "C", "D", "E", "F", "G", "H", "I", "J", "K", "L", "M",
            "N", "O", "P", "Q", "R", "S", "T", "U", "V", "W", "X", "Y", "Z"} |->
        CASE c = "A" -> "a" [] c = "B" -> "b" [] c = "C" -> "c" [] c = "D" -> "d"
          [] c = "E" -> "e" [] c = "F" -> "f" [] c = "G" -> "g" [] c = "H" -> "h"
          [] c = "I" -> "i" [] c = "J" -> "j" [] c = "K" -> "k" [] c = "L" -> "l"
          [] c = "M" -> "m" [] c = "N" -> "n" [] c = "O" -> "o" [] c = "P" -> "p"
          [] c = "Q" -> "q" [] c = "R" -> "r" [] c = "S" -> "s" [] c = "T" -> "t"
          [] c = "U" -> "u" [] c = "V" -> "v" [] c = "W" -> "w" [] c = "X" -> "x"
          [] c = "Y" -> "y" [] c = "Z" -> "z"]

RECURSIVE toLowerCase(_)
\* String.prototype.toLowerCase, character by character
toLowerCase(w) ==
    IF w = "" THEN ""
    ELSE LET c == SubSeq(w, 1, 1)
         IN  (IF c \in DOMAIN LowerTable THEN LowerTable[c] ELSE c)
                \o toLowerCase(SubSeq(w, 2, Len(w)))

\* String.prototype.includes
includes(s, t) == \E i \in 0..(Len(s) - Len(t)) : SubSeq(s, i + 1, i + Len(t)) = t

\* keys that Object.entries lists first, in ascending numeric order
IntegerKeys == ("7" :> 7) @@ ("501" :> 501)

(***************************************************************************)
(* Wardrobe Feature Analyzer (wardrobeRecommendations.ts)                  *)
(***************************************************************************)
NoVal == ""    \* a field that is null, undefined or the empty string

WItem(n, cat, col, br) == [name |-> n, category |-> cat, color |-> col, brand |-> br]

DefaultAnalysis ==
    [topColors     |-> <<"Black", "White", "Blue">>,
     topCategories |-> <<"Tops", "Bottoms", "Dresses">>,
     topBrands     |-> <<>>,
     commonStyles  |-> <<"Casual", "Classic", "Modern">>]

\* the values of one field over the items that carry it, in item order
FieldValues(items, f) ==
    LET vals == [i \in DOMAIN items |-> items[i][f]]
    IN  SelectSeq(vals, LAMBDA v : v # NoVal)

RECURSIVE AscendingKeys(_)
AscendingKeys(S) ==
    IF S = {} THEN <<>>
    ELSE LET k == CHOOSE x \in S : \A y \in S : IntegerKeys[x] <= IntegerKeys[y]
         IN  <<k>> \o AscendingKeys(S \ {k})

\* Object.entries(counts): integer-like keys ascending, then the others in
\* insertion order
ObjectKeys(vals) ==
    LET d == Distinct(vals)
    IN  AscendingKeys(Range(d) \cap DOMAIN IntegerKeys)
        \o SelectSeq(d, LAMBDA k : k \notin DOMAIN IntegerKeys)

RECURSIVE SortByCountDesc(_, _)
\* Array.prototype.sort(([, a], [, b]) => b - a): stable
SortByCountDesc(keys, vals) ==
    IF keys = <<>> THEN <<>>
    ELSE LET best == CHOOSE i \in DOMAIN keys :
                        /\ \A j \in DOMAIN keys : Count(vals, keys[j]) <= Count(vals, keys[i])
                        /\ \A j \in 1..(i - 1) : Count(vals, keys[j]) < Count(vals, keys[i])
             rest == [j \in 1..(Len(keys) - 1) |-> IF j < best THEN keys[j] ELSE keys[j + 1]]
         IN  <<keys[best]>> \o SortByCountDesc(rest, vals)

\* TopThree without the slice
TopThreeUnsliced(items, f) ==
    LET vals == FieldValues(items, f)
    IN  SortByCountDesc(ObjectKeys(vals), vals)

TopThree(items, f) ==
    LET vals == FieldValues(items, f)
    IN  Take(SortByCountDesc(ObjectKeys(vals), vals), 3)

\* resp: the outcome of api.get('/wardrobe'), [ok, data]
analyzeWardrobeFeatures(resp) ==
    IF ~resp.ok THEN DefaultAnalysis
    ELSE IF resp.data = <<>> THEN DefaultAnalysis
    ELSE LET topColors     == TopThree(resp.data, "color")
             topCategories == TopThree(resp.data, "category")
             topBrands     == TopThree(resp.data, "brand")
         IN  [topColors     |-> IF Len(topColors) > 0 THEN topColors
                                ELSE <<"Black", "White", "Blue">>,
              topCategories |-> IF Len(topCategories) > 0 THEN topCategories
                                ELSE <<"Tops", "Bottoms", "Dresses">>,
              topBrands     |-> topBrands,
              commonStyles  |-> <<"Casual", "Classic", "Modern">>]

(***************************************************************************)
(* Rule-based query generation (wardrobeRecommendations.ts)                *)
(***************************************************************************)
colorComplements ==
    [c \in {"Black", "White", "Blue", "Red", "Green", "Yellow", "Purple", "Pink",
            "Brown", "Gray", "Navy", "Beige"} |->
        CASE c = "Black" -> "White"   [] c = "White" -> "Black"  [] c = "Blue" -> "Orange"
          [] c = "Red" -> "Green"     [] c = "Green" -> "Red"    [] c = "Yellow" -> "Purple"
          [] c = "Purple" -> "Yellow" [] c = "Pink" -> "Green"   [] c = "Brown" -> "Blue"
          [] c = "Gray" -> "Yellow"   [] c = "Navy" -> "Gold"    [] c = "Beige" -> "Navy"]

\* getComplementaryColors without the slice
getComplementaryColorsUnsliced(topColors) ==
    LET mapped == [i \in DOMAIN topColors |->
                      IF topColors[i] \in DOMAIN colorComplements
                      THEN colorComplements[topColors[i]] ELSE NoVal]
    IN  SelectSeq(mapped, LAMBDA c : c # NoVal)

getComplementaryColors(topColors) ==
    LET mapped == [i \in DOMAIN topColors |->
                      IF topColors[i] \in DOMAIN colorComplements
                      THEN colorComplements[topColors[i]] ELSE NoVal]
    IN  Take(SelectSeq(mapped, LAMBDA c : c # NoVal), 2)

generateSearchQueries(features) ==
    LET perColor == [color \in Range(features.topColors) |->
                        [i \in DOMAIN features.topCategories |->
                            toLowerCase(color) \o " " \o toLowerCase(features.topCategories[i])]]
        pairs    == FlatMap(perColor, features.topColors)
        brands   == [i \in DOMAIN features.topBrands |-> toLowerCase(features.topBrands[i])]
        styles   == [i \in DOMAIN features.commonStyles |->
                        toLowerCase(features.commonStyles[i]) \o " clothing"]
        comp     == getComplementaryColors(features.topColors)
        accs     == [i \in DOMAIN comp |-> toLowerCase(comp[i]) \o " accessories"]
    IN  pairs \o brands \o styles \o accs


(***************************************************************************)
(* Suggestion Engine client (geminiAnalysis.ts)                            *)
(*                                                                         *)
(* A generateContent response is [kind, obj]: kind "notext" (no candidate  *)
(* text), "nojson" (text without a {...} block), "badjson" (a block that   *)
(* JSON.parse rejects) or "json" (obj is the parsed object: each of its    *)
(* four fields is an array, or NotArray when missing or of another type).  *)
(***************************************************************************)
NotArray  == <<"#not-an-array">>   \* a field that is missing or not an array
NonString == "<number 123>"      \* an array element that is not a string
IsString(x) == x # NonString

GeminiObject(sq, si, rc, mp) ==
    [searchQueries |-> sq, styleInsights |-> si, recommendations |-> rc, missingPieces |-> mp]

extractRecommendationsFromText ==
    [searchQueries   |-> <<"versatile blazer", "statement accessories", "comfortable flats",
                           "classic white shirt", "dark wash jeans">>,
     styleInsights   |-> <<"Your wardrobe shows a preference for classic, versatile pieces",
                           "There's a good foundation with neutral colors that can be built upon",
                           "Adding some statement pieces would enhance your style options">>,
     recommendations |-> <<"A structured blazer for professional and casual looks",
                           "Statement jewelry to elevate basic outfits",
                           "A versatile midi dress for multiple occasions",
                           "Quality leather accessories for a polished finish">>,
     missingPieces   |-> <<"Structured outerwear piece", "Statement accessories",
                           "Versatile dress option", "Quality leather goods">>]

NoObject == GeminiObject(NotArray, NotArray, NotArray, NotArray)

ArrayOrEmpty(x) == IF x = NotArray THEN <<>> ELSE x

parseGeminiResponse(resp) ==
    IF resp.kind \in {"nojson", "badjson"} THEN extractRecommendationsFromText
    ELSE [searchQueries   |-> ArrayOrEmpty(resp.obj.searchQueries),
          styleInsights   |-> ArrayOrEmpty(resp.obj.styleInsights),
          recommendations |-> ArrayOrEmpty(resp.obj.recommendations),
          missingPieces   |-> ArrayOrEmpty(resp.obj.missingPieces)]

\* text.toLowerCase().replace(/[^\w\s]/g, '').split(' ').filter(w => w.length > 3)
\*     .slice(0, 2).join(' '), over the recommendation sentences of the model
extractKeywords(text) ==
    CASE text = "A structured blazer for professional and casual looks" -> "structured blazer"
      [] text = "Statement jewelry to elevate basic outfits" -> "statement jewelry"
      [] text = "A versatile midi dress for multiple occasions" -> "versatile midi"
      [] text = "Quality leather accessories for a polished finish" -> "quality leather"
      [] text = "Add a linen shirt" -> "linen shirt"
      [] OTHER -> ""

\* geminiAnalysis.ts generateSearchQueries (imported as generateGeminiSearchQueries):
\* [threw, queries]; toLowerCase on an element that is not a string is a TypeError
generateGeminiSearchQueries(rec, maxQueries) ==
    IF \E x \in Range(rec.missingPieces) \cup Range(rec.recommendations) : ~IsString(x)
    THEN [threw |-> TRUE, queries |-> <<>>]
    ELSE LET pieces     == [i \in DOMAIN rec.missingPieces |-> toLowerCase(rec.missingPieces[i])]
             keywords   == [i \in DOMAIN rec.recommendations |->
                               extractKeywords(rec.recommendations[i])]
             allQueries == SelectSeq(rec.searchQueries \o pieces \o keywords,
                                     LAMBDA q : q # "")
         IN  [threw |-> FALSE, queries |-> Take(Distinct(allQueries), maxQueries)]

\* The responses the Suggestion Engine gives in the model.
GeminiResponses ==
    { [kind |-> "notext",  obj |-> NoObject],
      [kind |-> "nojson",  obj |-> NoObject],
      [kind |-> "badjson", obj |-> NoObject],
      \* a well-formed answer
      [kind |-> "json", obj |-> GeminiObject(<<"denim jacket", "white sneakers">>, <<>>,
                                             <<"Add a linen shirt">>, <<"Wool Coat">>)],
      \* more queries than the run uses
      [kind |-> "json", obj |-> GeminiObject(<<"denim jacket", "white sneakers", "silk scarf",
                                               "leather belt", "wool coat", "linen shirt",
                                               "canvas tote">>, <<>>, <<>>, <<>>)],
      \* {} : none of the four fields
      [kind |-> "json", obj |-> GeminiObject(NotArray, NotArray, NotArray, NotArray)],
      \* searchQueries is a string, the other fields are arrays
      [kind |-> "json", obj |-> GeminiObject(NotArray, <<>>, <<>>, <<"Wool Coat">>)],
      \* an element of searchQueries is a number
      [kind |-> "json", obj |-> GeminiObject(<<NonString, "denim jacket">>, <<>>, <<>>, <<>>)],
      \* an element of missingPieces is a number
      [kind |-> "json", obj |-> GeminiObject(<<"denim jacket">>, <<>>, <<>>, <<NonString>>)] }

\* a response that does not parse into the four string lists
Malformed(resp) ==
    \/ resp.kind \in {"nojson", "badjson"}
    \/ resp.kind = "json" /\ resp.obj.searchQueries = NotArray

(***************************************************************************)
(* Marketplace Search Adapter (devMode.ts)                            *)
(***************************************************************************)
CACHE_DURATION == 5 * 60 * 1000

Product(id, name, price) ==
    [id |-> id, name |-> name, price |-> price, platform |-> "Carousell"]

\* what the marketplace does with a request: it lists varied items, it lists the
\* same item again and again, it lists nothing, or it is down (error or 401/403/429)
Worlds == {"varied", "repeats", "nothing", "down"}

\* transformCarousellData(await response.json()) for a keyword
Upstream(w, q) ==
    CASE w = "varied" ->
            << Product(q \o "#1", "Zara " \o q, 20),   Product(q \o "#2", "Nike " \o q, 25),
               Product(q \o "#3", "Uniqlo " \o q, 30), Product(q \o "#4", "Mango " \o q, 35),
               Product(q \o "#5", "ASOS " \o q, 40) >>
      [] w = "repeats" ->
            << Product(q \o "#1", "Vintage Tee", 20), Product(q \o "#2", "Vintage Tee", 20),
               Product(q \o "#3", "Nike " \o q, 30),  Product(q \o "#4", "Vintage Tee", 25) >>
      [] OTHER -> <<>>

\* getMockResults(keyword): brand and price are drawn at random, so two of the
\* generated records may agree in name and price
getMockResults(q) ==
    IF \A i \in 1..Len(q) : SubSeq(q, i, i) \in {" ", "\n", "\r", "\t"} THEN <<>>
    ELSE
    << Product("mock-" \o q \o "#1", "Zara " \o q, 21), Product("mock-" \o q \o "#2", "Zara " \o q, 21),
       Product("mock-" \o q \o "#3", "Nike " \o q, 26), Product("mock-" \o q \o "#4", "Uniqlo " \o q, 31),
       Product("mock-" \o q \o "#5", "Mango " \o q, 36) >>

\* how the fetch of searchCarousell can settle
FetchStatuses(w) == IF w = "down" THEN {"denied", "failed"} ELSE {"ok"}

CacheKey(keyword, country) == keyword \o "-" \o country

\* CacheFresh with an entry of exactly CACHE_DURATION taken as fresh
CacheFreshInclusive(cache, key, t) ==
    key \in DOMAIN cache /\ t - cache[key].timestamp <= CACHE_DURATION

CacheFresh(cache, key, t) ==
    key \in DOMAIN cache /\ t - cache[key].timestamp < CACHE_DURATION

CacheSet(cache, key, data, t) ==
    [k \in DOMAIN cache \cup {key} |->
        IF k = key THEN [data |-> data, timestamp |-> t] ELSE cache[k]]

(***************************************************************************)
(* removeDuplicates (wardrobeRecommendations.ts)                           *)
(***************************************************************************)
\* a key that leaves the price out
DedupKeyWithoutPrice(item) == item.name \o "-" \o item.platform

DedupKey(item) == item.name \o "-" \o ToString(item.price) \o "-" \o item.platform

RECURSIVE FilterUnseen(_, _)
FilterUnseen(items, seen) ==
    IF items = <<>> THEN <<>>
    ELSE LET key == DedupKey(Head(items))
         IN  IF key \in seen
             THEN FilterUnseen(Tail(items), seen)
             ELSE <<Head(items)>> \o FilterUnseen(Tail(items), seen \cup {key})

removeDuplicates(items) == FilterUnseen(items, {})


(***************************************************************************)
(* Recommendation Aggregator (wardrobeRecommendations.ts)                  *)
(*                                                                         *)
(* call[c] is one invocation of generatePersonalizedRecommendations.  pc   *)
(* is the await it is suspended at; outcome is how its promise settled;    *)
(* source, gem, errs, trace and fresh record what happened and are read by *)
(* the properties only.                                                    *)
(***************************************************************************)
RECOMMENDATION_WINDOW == 30 * 60 * 1000    \* README: "Recommendations: 30-minute cache"

TickMs == CACHE_DURATION \div 2

Wardrobes ==
    { <<>>,
      << WItem("Tee", "Tops", "Black", NoVal), WItem("Shirt", "Tops", "Black", "Zara"),
         WItem("Jeans", "Bottoms", "Blue", NoVal) >>,
      << WItem("Scarf", "Accessories", NoVal, NoVal) >> }

IdleCall ==
    [pc |-> "idle", force |-> FALSE, features |-> DefaultAnalysis, queries |-> <<>>,
     sel |-> <<>>, qi |-> 0, all |-> <<>>, unique |-> <<>>,
     outcome |-> "pending", result |-> <<>>,
     source |-> "none", gem |-> "none", errs |-> {}, trace |-> <<>>, fresh |-> <<>>,
     \* read by the properties only: the list the second wardrobe read gave,
     \* and msg, the local of the catch around the first generateContent call
     items |-> <<>>, msg |-> ""]

\* getCachedRecommendations: a stub
getCachedRecommendations == Null

\* saveCachedRecommendations: a stub that logs the list it is handed; lastRec
\* keeps that list and the time of the call
saveCachedRecommendations(recommendations, t) ==
    [saved |-> TRUE, list |-> recommendations, at |-> t]

\* the refresh flag tested the wrong way round
ReturnsCachedInverted(forceRefresh, cached) == forceRefresh

\* if (!forceRefresh) { cached = ...; if (cached && cached.length > 0) return cached }
ReturnsCached(forceRefresh, cached) ==
    ~forceRefresh /\ cached # Null /\ Len(cached) > 0

\* no outer try: the error leaves the function
OuterCatchMissing(r) ==
    [r EXCEPT !.pc = "done", !.outcome = "rejected", !.source = "catch"]

\* the catch of the outer try: return []
OuterCatch(r) ==
    [r EXCEPT !.pc = "done", !.outcome = "returned", !.result = <<>>, !.source = "catch"]

\* the list is not truncated
ConcludeUntruncated(r) ==
    [r EXCEPT !.pc = "saving", !.unique = removeDuplicates(r.all)]

\* the end of the loop: removeDuplicates(allRecommendations).slice(0, 20), then the save
Conclude(r) ==
    [r EXCEPT !.pc = "saving", !.unique = Take(removeDuplicates(r.all), 20)]

\* for (const query of searchQueries.slice(0, 6))
EnterLoop(r, queries) ==
    LET sel == Take(queries, 6)
        r1  == [r EXCEPT !.queries = queries, !.sel = sel, !.qi = 1, !.pc = "search"]
    IN  IF sel = <<>> THEN Conclude(r1) ELSE r1

\* NextQuery with the records of the search put in front of the earlier ones
NextQueryPrepending(r, results) ==
    LET r1 == [r EXCEPT !.all = Take(results, 4) \o r.all, !.qi = r.qi + 1, !.pc = "search"]
    IN  IF r1.qi > Len(r1.sel) THEN Conclude(r1) ELSE r1

\* NextQuery without the slice: the whole list of the search is accumulated
NextQueryWholeList(r, results) ==
    LET r1 == [r EXCEPT !.all = r.all \o results, !.qi = r.qi + 1, !.pc = "search"]
    IN  IF r1.qi > Len(r1.sel) THEN Conclude(r1) ELSE r1

\* one iteration of the loop has ended with `results` (<<>> when it threw)
NextQuery(r, results) ==
    LET r1 == [r EXCEPT !.all = r.all \o Take(results, 4), !.qi = r.qi + 1, !.pc = "search"]
    IN  IF r1.qi > Len(r1.sel) THEN Conclude(r1) ELSE r1

\* the rejected search reaches the outer catch
SearchCatchAborts(r) == OuterCatch([r EXCEPT !.errs = r.errs \cup {"search"}])

\* the catch inside the loop: the error is logged, the loop goes on
SearchCatch(r) == NextQuery([r EXCEPT !.errs = r.errs \cup {"search"}], <<>>)

\* the catch around the Gemini analysis: fall back to the rule-based queries
GeminiCatch(r, why) ==
    EnterLoop([r EXCEPT !.gem = why, !.errs = r.errs \cup {"gemini"}],
              generateSearchQueries(r.features))

\* analyzeWardrobeWithGemini returned `rec`
GeminiReturned(r, rec, how) ==
    LET q == generateGeminiSearchQueries(rec, 6)
    IN  IF q.threw THEN GeminiCatch(r, "querygen")
        ELSE EnterLoop([r EXCEPT !.gem = how], q.queries)

\* generateContent answered with `resp`
GeminiAnswered(r, resp) ==
    IF resp.kind = "notext" THEN GeminiCatch(r, "notext")
    ELSE GeminiReturned(r, parseGeminiResponse(resp),
                        IF Malformed(resp) THEN "malformed" ELSE "parsed")

SetCall(c, r) == call' = [call EXCEPT ![c] = r]

\* the list handed to saveCachedRecommendations in this step, if any
Saved(r) == lastRec' = IF r.pc = "saving" THEN saveCachedRecommendations(r.unique, now)
                       ELSE lastRec

\* generatePersonalizedRecommendations(userId, forceRefresh) is called
RecStart(c) ==
    /\ call[c].pc = "idle"
    /\ \A d \in DOMAIN call : d < c => call[d].pc # "idle"
    /\ \E forceRefresh \in BOOLEAN :
         LET cached == IF forceRefresh THEN Null ELSE getCachedRecommendations
             fresh  == IF lastRec.saved /\ lastRec.list # <<>>
                          /\ now - lastRec.at < RECOMMENDATION_WINDOW
                       THEN lastRec.list ELSE <<>>
             r      == [call[c] EXCEPT !.force = forceRefresh, !.fresh = fresh]
         IN  IF ReturnsCached(forceRefresh, cached)
             THEN SetCall(c, [r EXCEPT !.pc = "done", !.outcome = "returned",
                                       !.result = cached, !.source = "cache"])
             ELSE \* analyzeWardrobeFeatures: api.get('/wardrobe') is issued
                  SetCall(c, [r EXCEPT !.pc = "fetch1", !.trace = <<"wardrobe">>])
    /\ UNCHANGED <<cfg, world, wardrobe, now, searchCache, lastRec, favVars, ddVars, fnVars, svVars>>

\* the analyzer's wardrobe read settles; the second read is issued
RecAnalyzed(c) ==
    /\ call[c].pc = "fetch1"
    /\ \E ok \in BOOLEAN :
         LET r == call[c]
         IN  SetCall(c, [r EXCEPT
                 !.features = analyzeWardrobeFeatures([ok |-> ok, data |-> wardrobe]),
                 !.errs = IF ok THEN r.errs ELSE r.errs \cup {"fetch1"},
                 !.pc = "fetch2", !.trace = Append(r.trace, "wardrobe")])
    /\ UNCHANGED <<cfg, world, wardrobe, now, searchCache, lastRec, favVars, ddVars, fnVars, svVars>>

\* the second wardrobe read settles; the Gemini analysis starts or is skipped
RecWardrobeRead(c) ==
    /\ call[c].pc = "fetch2"
    /\ \E ok \in BOOLEAN :
         LET r  == IF ok THEN [call[c] EXCEPT !.items = wardrobe] ELSE call[c]
             r1 == IF ~ok THEN OuterCatch([r EXCEPT !.errs = r.errs \cup {"fetch2"}])
                   ELSE IF wardrobe = <<>> THEN EnterLoop(r, generateSearchQueries(r.features))
                   ELSE IF ~cfg.geminiKey THEN GeminiCatch(r, "nokey")
                   ELSE IF cfg.disableExternal
                        THEN GeminiReturned(r, extractRecommendationsFromText, "disabled")
                   ELSE [r EXCEPT !.pc = "gem1", !.trace = Append(r.trace, "gemini")]
         IN  SetCall(c, r1) /\ Saved(r1)
    /\ UNCHANGED <<cfg, world, wardrobe, now, searchCache, favVars, ddVars, fnVars, svVars>>

\* messages of the errors generateContent throws
GeminiErrors ==
    {"503 Service Unavailable", "The model is overloaded. Please try again later.",
     "UNAVAILABLE", "429 Too Many Requests", "fetch failed"}

\* every error is retried
OverloadedAlways(msg) == TRUE

\* msg.includes('503') || msg.toLowerCase().includes('overloaded')
\*                      || msg.toLowerCase().includes('unavailable')
Overloaded(msg) ==
    \/ includes(msg, "503")
    \/ includes(toLowerCase(msg), "overloaded")
    \/ includes(toLowerCase(msg), "unavailable")

\* the first generateContent call settles
RecGeminiFirst(c) ==
    /\ call[c].pc = "gem1"
    /\ LET r == call[c]
       IN  \/ \E resp \in GeminiResponses :
                 LET r1 == GeminiAnswered(r, resp) IN SetCall(c, r1) /\ Saved(r1)
           \/ \E msg \in GeminiErrors :
                 IF Overloaded(msg)
                 THEN \* wait a second and call again
                      /\ SetCall(c, [r EXCEPT !.pc = "gem2", !.msg = msg,
                                              !.trace = Append(r.trace, "gemini")])
                      /\ UNCHANGED lastRec
                 ELSE \* any other error is rethrown
                      LET r1 == GeminiCatch(r, "error")
                      IN  SetCall(c, r1) /\ Saved(r1)
    /\ UNCHANGED <<cfg, world, wardrobe, now, searchCache, favVars, ddVars, fnVars, svVars>>

\* the retried generateContent call settles
RecGeminiRetry(c) ==
    /\ call[c].pc = "gem2"
    /\ LET r == [call[c] EXCEPT !.msg = ""]
       IN  \/ \E resp \in GeminiResponses :
                 LET r1 == GeminiAnswered(r, resp) IN SetCall(c, r1) /\ Saved(r1)
           \/ LET r1 == GeminiCatch(r, "retryfail") IN SetCall(c, r1) /\ Saved(r1)
    /\ UNCHANGED <<cfg, world, wardrobe, now, searchCache, favVars, ddVars, fnVars, svVars>>

\* searchCarousell(query) is called for the next query of the loop
RecSearch(c) ==
    /\ call[c].pc = "search"
    /\ LET r   == [call[c] EXCEPT !.trace = Append(call[c].trace, "search")]
           q   == r.sel[r.qi]
           key == CacheKey(q, "sg")
       IN  IF CacheFresh(searchCache, key, now)
           THEN LET r1 == NextQuery(r, searchCache[key].data)
                IN  SetCall(c, r1) /\ Saved(r1) /\ UNCHANGED searchCache
           ELSE IF ~IsString(q)
           THEN \* keyword.trim / q.replace is not a function: searchCarousell rejects
                LET r1 == SearchCatch(r)
                IN  SetCall(c, r1) /\ Saved(r1) /\ UNCHANGED searchCache
           ELSE IF ~cfg.rapidApi
           THEN LET mock == getMockResults(q)
                    r1   == NextQuery(r, mock)
                IN  /\ SetCall(c, r1) /\ Saved(r1)
                    /\ searchCache' = CacheSet(searchCache, key, mock, now)
           ELSE /\ SetCall(c, [r EXCEPT !.pc = "fetching", !.trace = Append(r.trace, "fetch")])
                /\ UNCHANGED <<searchCache, lastRec>>
    /\ UNCHANGED <<cfg, world, wardrobe, now, favVars, ddVars, fnVars, svVars>>

\* the fetch of searchCarousell settles
RecFetched(c) ==
    /\ call[c].pc = "fetching"
    /\ \E status \in FetchStatuses(world) :
         LET r    == call[c]
             q    == r.sel[r.qi]
             data == IF status = "ok" THEN Upstream(world, q) ELSE getMockResults(q)
             r1   == NextQuery(r, data)
         IN  /\ SetCall(c, r1) /\ Saved(r1)
             /\ searchCache' = CacheSet(searchCache, CacheKey(q, "sg"), data, now)
    /\ UNCHANGED <<cfg, world, wardrobe, now, favVars, ddVars, fnVars, svVars>>

\* saveCachedRecommendations has settled: return uniqueRecommendations
RecReturn(c) ==
    /\ call[c].pc = "saving"
    /\ SetCall(c, [call[c] EXCEPT !.pc = "done", !.outcome = "returned",
                                  !.result = call[c].unique, !.source = "generated"])
    /\ UNCHANGED <<cfg, world, wardrobe, now, searchCache, lastRec, favVars, ddVars, fnVars, svVars>>

Tick ==
    /\ now < MaxTicks * TickMs
    /\ now' = now + TickMs
    /\ UNCHANGED <<cfg, world, wardrobe, searchCache, call, lastRec, favVars, ddVars, fnVars, svVars>>

InitFavIdle == favs = <<>> /\ nextOid = 1 /\ req = <<>> /\ nodeEnv = "production"
InitDdIdle  == ddIn = <<>> /\ ddOut = [done |-> FALSE, list |-> <<>>]
NotApplied  == [done |-> FALSE]
InitFnIdle  ==
    /\ afIn = <<>> /\ afOut = NotApplied
    /\ awIn = <<>> /\ awOut = NotApplied
    /\ gqIn = <<>> /\ gqOut = NotApplied
    /\ sqIn = "" /\ sqOut = NotApplied

\* SearchView as it is mounted: nothing typed, nothing searched
IdleView ==
    [pc |-> "idle", searchQuery |-> "", selectedPlatform |-> "All", user |-> TRUE,
     queryToSearch |-> "", allResults |-> <<>>,
     searchResults |-> <<>>, currentSearchQuery |-> "", error |-> NoVal,
     isSearching |-> FALSE, showCheckCloset |-> FALSE,
     \* read by the properties only: what each source gave to the search in
     \* progress, which sources failed, the call of searchCarousell in progress,
     \* its last two calls, and the number of searches
     got |-> [carousell |-> <<>>, wardrobe |-> <<>>], failed |-> {},
     cur |-> <<>>, calls |-> <<>>, runs |-> 0]
InitSvIdle  == sv = IdleView

\* time passes between one invocation and the next
Pause ==
    /\ \A c \in DOMAIN call : call[c].pc \in {"idle", "done"}
    /\ \E c \in DOMAIN call : call[c].pc = "done"
    /\ Tick

\* One invocation, under every configuration.
InitRec ==
    /\ cfg \in [geminiKey : BOOLEAN, disableExternal : BOOLEAN, rapidApi : BOOLEAN]
    /\ world \in Worlds
    /\ wardrobe \in Wardrobes
    /\ now = 0
    /\ searchCache = <<>>
    /\ call = <<IdleCall>>
    /\ lastRec = [saved |-> FALSE, list |-> <<>>, at |-> 0]
    /\ InitFavIdle /\ InitDdIdle /\ InitFnIdle /\ InitSvIdle

NextRec ==
    \/ \E c \in DOMAIN call : RecStart(c)
    \/ \E c \in DOMAIN call : RecAnalyzed(c)
    \/ \E c \in DOMAIN call : RecWardrobeRead(c)
    \/ \E c \in DOMAIN call : RecGeminiFirst(c)
    \/ \E c \in DOMAIN call : RecGeminiRetry(c)
    \/ \E c \in DOMAIN call : RecSearch(c)
    \/ \E c \in DOMAIN call : RecFetched(c)
    \/ \E c \in DOMAIN call : RecReturn(c)
    \/ Tick

SpecRec == InitRec /\ [][NextRec]_vars

\* WardrobeView.handleSubmit: POST /wardrobe stores the item; GET /wardrobe
\* lists the newest item first
WardrobeAdd ==
    /\ Len(wardrobe) < MaxWardrobeLen
    /\ wardrobe' = <<WItem("Cap", NoVal, "Teal", "7")>> \o wardrobe
    /\ UNCHANGED <<cfg, world, now, searchCache, call, lastRec, favVars, ddVars, fnVars, svVars>>

\* WardrobeView.handleDeleteItem: DELETE /wardrobe/:id removes the item
WardrobeDelete ==
    /\ \E i \in DOMAIN wardrobe :
         wardrobe' = SubSeq(wardrobe, 1, i - 1) \o SubSeq(wardrobe, i + 1, Len(wardrobe))
    /\ UNCHANGED <<cfg, world, now, searchCache, call, lastRec, favVars, ddVars, fnVars, svVars>>

\* One invocation while the user edits the wardrobe in WardrobeView; the
\* run starts on a wardrobe of at most one item and the marketplace is not
\* configured.
InitRecEdit == InitRec /\ Len(wardrobe) <= 1 /\ ~cfg.rapidApi /\ world = "varied"

NextRecEdit ==
    \/ \E c \in DOMAIN call : RecStart(c)
    \/ \E c \in DOMAIN call : RecAnalyzed(c)
    \/ \E c \in DOMAIN call : RecWardrobeRead(c)
    \/ \E c \in DOMAIN call : RecGeminiFirst(c)
    \/ \E c \in DOMAIN call : RecGeminiRetry(c)
    \/ \E c \in DOMAIN call : RecSearch(c)
    \/ \E c \in DOMAIN call : RecReturn(c)
    \/ WardrobeAdd
    \/ WardrobeDelete

SpecRecEdit == InitRecEdit /\ [][NextRecEdit]_vars

\* Two invocations, one after the other or overlapping (HomeView calls
\* loadPersonalizedContent whenever `user` changes), in the configuration
\* without a Gemini key, where the Suggestion Engine is never called.
InitRecTwo ==
    /\ cfg = [geminiKey |-> FALSE, disableExternal |-> FALSE, rapidApi |-> TRUE]
    /\ world = "varied"
    /\ wardrobe = <<>>
    /\ now = 0
    /\ searchCache = <<>>
    /\ call = <<IdleCall, IdleCall>>
    /\ lastRec = [saved |-> FALSE, list |-> <<>>, at |-> 0]
    /\ InitFavIdle /\ InitDdIdle /\ InitFnIdle /\ InitSvIdle

NextRecTwo ==
    \/ \E c \in DOMAIN call : RecStart(c)
    \/ \E c \in DOMAIN call : RecAnalyzed(c)
    \/ \E c \in DOMAIN call : RecWardrobeRead(c)
    \/ \E c \in DOMAIN call : RecSearch(c)
    \/ \E c \in DOMAIN call : RecFetched(c)
    \/ \E c \in DOMAIN call : RecReturn(c)
    \/ Pause

SpecRecTwo == InitRecTwo /\ [][NextRecTwo]_vars

(***************************************************************************)
(* Properties of the Recommendation Aggregator                             *)
(***************************************************************************)
Running(c) == call[c].pc \notin {"idle", "done"}
Finished(c) == call[c].pc = "done"
Searches(c) == Count(call[c].trace, "search")

\* C1: a call without forceRefresh that starts inside the freshness window of
\* an earlier non-empty result makes no upstream call at all (no wardrobe read,
\* no Suggestion Engine call, no marketplace search) and returns that result.
C1_FreshResultIsReused ==
    \A c \in DOMAIN call :
        (~call[c].force /\ call[c].fresh # <<>>) =>
            /\ call[c].trace = <<>>
            /\ Finished(c) => call[c].result = call[c].fresh

\* C3: at most one regeneration is in progress at any time.
C3_OneRegenerationAtATime ==
    Cardinality({c \in DOMAIN call : Running(c)}) <= 1

\* C4: a Suggestion Engine answer that does not parse into the four string
\* lists leads to the rule-based queries of the wardrobe features, the ones a
\* network failure leads to, and so to a non-empty list of queries to search.
C4_MalformedAnswerUsesRuleBasedQueries ==
    \A c \in DOMAIN call :
        call[c].gem = "malformed" =>
            /\ call[c].queries = generateSearchQueries(call[c].features)
            /\ call[c].sel # <<>>

EngineFailures == {"nokey", "error", "retryfail", "notext"}

\* C5: whatever way the Suggestion Engine fails (no API key, an error of the
\* call, a failed retry, an answer without text), the promise of
\* generatePersonalizedRecommendations is never rejected and it resolves to a
\* list of at most 20 product records.
C5_EngineFailureStillReturnsAtMost20 ==
    \A c \in DOMAIN call :
        call[c].gem \in EngineFailures =>
            /\ call[c].outcome # "rejected"
            /\ Finished(c) =>
                  /\ call[c].outcome = "returned"
                  /\ Len(call[c].result) <= 20
                  /\ \A i \in DOMAIN call[c].result : call[c].result[i].platform = "Carousell"

\* C5 witness: the engine failed, more than 20 distinct records were gathered
\* and the call returned 20 of them.
C5_Witness ==
    \E c \in DOMAIN call :
        /\ call[c].gem \in EngineFailures /\ Finished(c)
        /\ Len(removeDuplicates(call[c].all)) > 20
        /\ Len(call[c].result) = 20

\* C6 as stated: the promise is never rejected, and a call in which an error
\* occurred at any step returns the empty list.
C6_AnyErrorReturnsEmpty ==
    \A c \in DOMAIN call :
        /\ call[c].outcome # "rejected"
        /\ (Finished(c) /\ call[c].errs # {}) => call[c].result = <<>>

\* C6 as amended: the promise is never rejected; a call whose own wardrobe
\* read (the one of generatePersonalizedRecommendations) fails returns the
\* empty list; a failed wardrobe read of the analyzer, a Suggestion Engine
\* failure and a failed search are handled where they occur, and the call goes
\* on to return the deduplicated, truncated list of what it gathered.
C6_NeverRejects ==
    \A c \in DOMAIN call :
        /\ call[c].outcome # "rejected"
        /\ Finished(c) =>
              /\ call[c].outcome = "returned"
              /\ "fetch2" \in call[c].errs => call[c].result = <<>>
              /\ "fetch2" \notin call[c].errs =>
                    /\ call[c].source = "generated"
                    /\ call[c].result = Take(removeDuplicates(call[c].all), 20)

\* C6 witness: the call's own wardrobe read failed and the call has returned.
C6_Witness ==
    \E c \in DOMAIN call :
        Finished(c) /\ "fetch2" \in call[c].errs /\ call[c].outcome = "returned"

\* C9 as stated: a call with forceRefresh never returns from the cache branch,
\* and every such call runs the full regeneration: wardrobe analysis, query
\* generation and the marketplace searches.
C9_ForceRefreshRunsFullRegeneration ==
    \A c \in DOMAIN call :
        (call[c].force /\ Finished(c)) =>
            /\ call[c].source = "generated"
            /\ call[c].sel # <<>> /\ Searches(c) = Len(call[c].sel)

\* C9, amended: a call with forceRefresh never returns from the cache branch: it reads
\* the wardrobe and analyses it, and, unless its own wardrobe read fails (it
\* then returns the empty list), it generates queries, calls the marketplace
\* search once for each of the (at most 6) queries and returns the list built
\* from what these searches gave; this also when an earlier result is fresh.
C9_ForceRefreshRegenerates ==
    \A c \in DOMAIN call :
        (call[c].force /\ call[c].pc # "idle") =>
            /\ call[c].source # "cache"
            /\ call[c].trace # <<>> /\ call[c].trace[1] = "wardrobe"
            /\ Finished(c) =>
                  \/ "fetch2" \in call[c].errs /\ call[c].result = <<>>
                  \/ /\ call[c].source = "generated"
                     /\ call[c].sel = Take(call[c].queries, 6)
                     /\ Searches(c) = Len(call[c].sel)
                     /\ call[c].result = call[c].unique

\* C9 witness: a forceRefresh call that started while an earlier non-empty
\* result was fresh has searched the marketplace and returned.
C9_Witness ==
    \E c \in DOMAIN call :
        /\ call[c].force /\ call[c].fresh # <<>> /\ Finished(c)
        /\ call[c].source = "generated" /\ Searches(c) = 6


(***************************************************************************)
(* Favorites routes (routes/favorites.ts, models/FavoriteItem.ts)          *)
(*                                                                         *)
(* Each await of a handler is a step: the database runs one query at a     *)
(* time, and handlers of different requests interleave between queries.    *)
(***************************************************************************)
Users == {"u1", "u2"}

Oid(n) == "oid" \o ToString(n)
ObjectIds == {Oid(n) : n \in 1..(MaxRequests + 1)}
\* whether Mongoose casts the string to an ObjectId (the type of _id)
IsObjectId(id) == id \in ObjectIds

Body(ext, url, name, img) ==
    [external_id |-> ext, url |-> url, item_name |-> name, image_url |-> img]

\* the request bodies of POST /api/favorites
Bodies ==
    { Body("p1", "http://c/p1", "Tee", "tee.jpg"),     \* a marketplace listing
      Body(Oid(1), NoVal, "Jeans", "jeans.jpg"),       \* a wardrobe item: its id, no url
      Body(NoVal, "http://c/p1", "Tee", "tee.jpg"),    \* no external id
      Body(NoVal, NoVal, "Tee", "tee.jpg"),            \* no external id, no url
      Body("p1", "http://c/p1", "Tee", NoVal) }        \* image_url (required) is missing

\* the :externalId of DELETE /api/favorites/:externalId
RemoveIds == {"p1", Oid(1), Oid(2)}

\* a duplicate check that leaves the user out
DuplicateQueryOfAnyUser(user, body) ==
    IF body.external_id # NoVal THEN [f \in {"external_id"} |-> body.external_id]
    ELSE IF body.url # NoVal THEN [f \in {"url"} |-> body.url]
    ELSE [f \in {"item_name", "image_url"} |-> body[f]]

\* the query of the duplicate check
DuplicateQuery(user, body) ==
    IF body.external_id # NoVal THEN [f \in {"user_id", "external_id"} |->
            IF f = "user_id" THEN user ELSE body.external_id]
    ELSE IF body.url # NoVal THEN [f \in {"user_id", "url"} |->
            IF f = "user_id" THEN user ELSE body.url]
    ELSE [f \in {"user_id", "item_name", "image_url"} |->
            IF f = "user_id" THEN user ELSE body[f]]

Matches(doc, query) == \A f \in DOMAIN query : doc[f] = query[f]

\* a duplicate check that finds nothing
findOneNothing(coll, query) == 0

\* Model.findOne(query): the position of the first matching document, 0 for null
findOne(coll, query) ==
    IF \E i \in DOMAIN coll : Matches(coll[i], query)
    THEN CHOOSE i \in DOMAIN coll :
            Matches(coll[i], query) /\ \A j \in 1..(i - 1) : ~Matches(coll[j], query)
    ELSE 0

Without(coll, i) == [j \in 1..(Len(coll) - 1) |-> IF j < i THEN coll[j] ELSE coll[j + 1]]

\* the schema's required paths
Valid(body) == body.item_name # NoVal /\ body.image_url # NoVal

NewRequest(op, user, arg) ==
    [op |-> op, user |-> user, arg |-> arg,
     pc |-> IF op = "add" THEN "find" ELSE IF op = "list" THEN "list" ELSE "byExternalId",
     status |-> "none", caught |-> FALSE, id |-> NoVal, doc |-> Body(NoVal, NoVal, NoVal, NoVal),
     before |-> favs, deleted |-> 0,
     \* read by the properties only: the owner of the record the request found
     \* or deleted, and the records a list request answered with
     owner |-> NoVal, listed |-> <<>>]

Respond(r, status, id) == [req[r] EXCEPT !.pc = "done", !.status = status, !.id = id]

\* the readings of Date.now() that a stub id is made of
StubClock == {"1700000000001", "1700000000002"}

\* the catch of a handler: outside production a stub answer that reports
\* success, in production status 500
Caught(r, status, id) ==
    IF nodeEnv # "production"
    THEN [Respond(r, status, id) EXCEPT !.caught = TRUE]
    ELSE [Respond(r, "500", NoVal) EXCEPT !.caught = TRUE]

InFlight == {r \in DOMAIN req : req[r].pc # "done"}

\* POST /api/favorites or DELETE /api/favorites/:externalId arrives (auth has
\* put the token's userId in req.user)
FavReceive ==
    /\ Len(req) < MaxRequests
    /\ \E user \in Users :
         \/ \E body \in Bodies : req' = Append(req, NewRequest("add", user, body))
         \/ \E id \in RemoveIds : req' = Append(req, NewRequest("remove", user, id))
    /\ UNCHANGED <<favs, nextOid, nodeEnv, recVars, ddVars, fnVars, svVars>>

\* add: FavoriteItem.findOne(query) settles
AddFound(r) ==
    /\ req[r].op = "add" /\ req[r].pc = "find"
    /\ LET existing == findOne(favs, DuplicateQuery(req[r].user, req[r].arg))
       IN  IF existing # 0
           THEN /\ req' = [req EXCEPT ![r] = [Respond(r, "200", favs[existing]._id)
                                                EXCEPT !.owner = favs[existing].user_id]]
                /\ UNCHANGED nextOid
           ELSE \* new FavoriteItem({...req.body, user_id}) gets its _id; save() is issued
                /\ req' = [req EXCEPT ![r].pc = "save",
                                      ![r].doc = req[r].arg @@ [_id |-> Oid(nextOid),
                                                                user_id |-> req[r].user]]
                /\ nextOid' = nextOid + 1
    /\ UNCHANGED <<favs, nodeEnv, recVars, ddVars, fnVars, svVars>>

\* add: item.save() settles
AddSaved(r) ==
    /\ req[r].op = "add" /\ req[r].pc = "save"
    /\ IF Valid(req[r].arg)
       THEN /\ favs' = Append(favs, req[r].doc)
            /\ req' = [req EXCEPT ![r] = Respond(r, "201", req[r].doc._id)]
       ELSE \* ValidationError
            /\ \E t \in StubClock :
                 req' = [req EXCEPT ![r] = Caught(r, "201", "stub-" \o t)]
            /\ UNCHANGED favs
    /\ UNCHANGED <<nextOid, nodeEnv, recVars, ddVars, fnVars, svVars>>

\* remove: findOneAndDelete({external_id, user_id}) settles
RemoveByExternalId(r) ==
    /\ req[r].op = "remove" /\ req[r].pc = "byExternalId"
    /\ LET item == findOne(favs, [f \in {"user_id", "external_id"} |->
                                    IF f = "user_id" THEN req[r].user ELSE req[r].arg])
       IN  IF item # 0
           THEN /\ favs' = Without(favs, item)
                /\ req' = [req EXCEPT ![r] = [Respond(r, "200", favs[item]._id)
                                                EXCEPT !.deleted = 1,
                                                       !.owner = favs[item].user_id]]
           ELSE /\ req' = [req EXCEPT ![r].pc = "byId"]
                /\ UNCHANGED favs
    /\ UNCHANGED <<nextOid, nodeEnv, recVars, ddVars, fnVars, svVars>>

\* remove: findOneAndDelete({_id, user_id}) settles
RemoveById(r) ==
    /\ req[r].op = "remove" /\ req[r].pc = "byId"
    /\ IF ~IsObjectId(req[r].arg)
       THEN \* CastError: the string is no ObjectId
            /\ req' = [req EXCEPT ![r] = Caught(r, "200", NoVal)]
            /\ UNCHANGED favs
       ELSE LET itemById == findOne(favs, [f \in {"user_id", "_id"} |->
                                             IF f = "user_id" THEN req[r].user ELSE req[r].arg])
            IN  IF itemById # 0
                THEN /\ favs' = Without(favs, itemById)
                     /\ req' = [req EXCEPT ![r] = [Respond(r, "200", favs[itemById]._id)
                                                     EXCEPT !.deleted = 1,
                                                            !.owner = favs[itemById].user_id]]
                ELSE /\ req' = [req EXCEPT ![r] = Respond(r, "404", NoVal)]
                     /\ UNCHANGED favs
    /\ UNCHANGED <<nextOid, nodeEnv, recVars, ddVars, fnVars, svVars>>

InitRecIdle ==
    /\ cfg = [geminiKey |-> FALSE, disableExternal |-> FALSE, rapidApi |-> FALSE]
    /\ world = "nothing" /\ wardrobe = <<>> /\ now = 0 /\ searchCache = <<>>
    /\ call = <<>> /\ lastRec = [saved |-> FALSE, list |-> <<>>, at |-> 0]

InitFav ==
    /\ favs = <<>> /\ nextOid = 1 /\ req = <<>>
    /\ nodeEnv \in {"production", "development"}
    /\ InitRecIdle /\ InitDdIdle /\ InitFnIdle /\ InitSvIdle

\* requests are served concurrently
NextFav ==
    \/ FavReceive
    \/ \E r \in DOMAIN req : AddFound(r)
    \/ \E r \in DOMAIN req : AddSaved(r)
    \/ \E r \in DOMAIN req : RemoveByExternalId(r)
    \/ \E r \in DOMAIN req : RemoveById(r)

SpecFav == InitFav /\ [][NextFav]_vars

\* a client that sends a request only after the answer to the one before
FavReceiveInTurn == InFlight = {} /\ FavReceive

NextFavSeq ==
    \/ FavReceiveInTurn
    \/ \E r \in DOMAIN req : AddFound(r)
    \/ \E r \in DOMAIN req : AddSaved(r)
    \/ \E r \in DOMAIN req : RemoveByExternalId(r)
    \/ \E r \in DOMAIN req : RemoveById(r)

SpecFavSeq == InitFav /\ [][NextFavSeq]_vars

\* GET /api/favorites arrives
FavListReceive ==
    /\ InFlight = {} /\ Len(req) < MaxRequests
    /\ \E user \in Users : req' = Append(req, NewRequest("list", user, NoVal))
    /\ UNCHANGED <<favs, nextOid, nodeEnv, recVars, ddVars, fnVars, svVars>>

\* list: FavoriteItem.find({user_id}).sort({created_at: -1}) settles, with the
\* user's records, newest first, or with an error of the database
FavListed(r) ==
    /\ req[r].op = "list" /\ req[r].pc = "list"
    /\ \/ LET items == SelectSeq(favs, LAMBDA doc : doc.user_id = req[r].user)
          IN  req' = [req EXCEPT ![r] = [Respond(r, "200", NoVal) EXCEPT
                          !.listed = [i \in DOMAIN items |-> items[Len(items) + 1 - i]]]]
       \/ req' = [req EXCEPT ![r] = Caught(r, "200", NoVal)]
    /\ UNCHANGED <<favs, nextOid, nodeEnv, recVars, ddVars, fnVars, svVars>>

\* The three routes, one request at a time.
NextFavScope ==
    \/ FavReceiveInTurn
    \/ FavListReceive
    \/ \E r \in DOMAIN req : FavListed(r)
    \/ \E r \in DOMAIN req : AddFound(r)
    \/ \E r \in DOMAIN req : AddSaved(r)
    \/ \E r \in DOMAIN req : RemoveByExternalId(r)
    \/ \E r \in DOMAIN req : RemoveById(r)

SpecFavScope == InitFav /\ [][NextFavScope]_vars


(***************************************************************************)
(* removeDuplicates applied to a list of search records                    *)
(***************************************************************************)
\* titles and prices of listings; transformCarousellData makes every price a
\* non-negative integer and every platform 'Carousell'
DedupNames == {"Tee", "Tee-1", "Jeans"}
DedupPrices == {1, 11}

\* the lists of at most MaxDedupLen records; the id of a record is its position
DedupLists ==
    UNION { { [i \in 1..n |-> Product(ToString(i), f[i][1], f[i][2])] :
                f \in [1..n -> DedupNames \X DedupPrices] } : n \in 0..MaxDedupLen }

InitDedup ==
    /\ ddIn \in DedupLists
    /\ ddOut = [done |-> FALSE, list |-> <<>>]
    /\ InitRecIdle /\ InitFavIdle /\ InitFnIdle /\ InitSvIdle

ApplyRemoveDuplicates ==
    /\ ~ddOut.done
    /\ ddOut' = [done |-> TRUE, list |-> removeDuplicates(ddIn)]
    /\ UNCHANGED <<ddIn, recVars, favVars, fnVars, svVars>>

NextDedup == ApplyRemoveDuplicates

SpecDedup == InitDedup /\ [][NextDedup]_vars

(***************************************************************************)
(* sanitizeQuery (carousellApi part of devMode.ts)                         *)
(***************************************************************************)
IsSpace(c) == c \in {" ", "\n", "\r", "\t"}

CharAt(q, i) == SubSeq(q, i, i)

RECURSIVE Join(_, _, _)
\* the strings pieces[lo], .., pieces[hi] put together
Join(pieces, lo, hi) ==
    IF lo > hi THEN ""
    ELSE IF lo = hi THEN pieces[lo]
    ELSE LET mid == (lo + hi) \div 2
         IN  Join(pieces, lo, mid) \o Join(pieces, mid + 1, hi)

\* .replace(/[\n\r]+/g, ' ').replace(/[*_~`<>]/g, ' ').replace(/:\s*/g, ' '):
\* each of these characters gives way to a space (runs of spaces are collapsed
\* next); the backquote, which no string of this module can hold, is left out
ReplaceChars(q, set) ==
    Join([i \in 1..Len(q) |-> IF CharAt(q, i) \in set THEN " " ELSE CharAt(q, i)], 1, Len(q))

\* .replace(/\s+/g, ' ')
CollapseSpaces(q) ==
    Join([i \in 1..Len(q) |->
            IF ~IsSpace(CharAt(q, i)) THEN CharAt(q, i)
            ELSE IF i > 1 /\ IsSpace(CharAt(q, i - 1)) THEN "" ELSE " "], 1, Len(q))

\* String.prototype.trim
trim(q) ==
    LET inked == {i \in 1..Len(q) : ~IsSpace(CharAt(q, i))}
    IN  IF inked = {} THEN ""
        ELSE SubSeq(q, CHOOSE i \in inked : \A j \in inked : i <= j,
                       CHOOSE i \in inked : \A j \in inked : i >= j)

\* String.prototype.lastIndexOf(' '), 0-based, -1 when there is none
lastIndexOfSpace(q) ==
    IF \E i \in 1..Len(q) : SubSeq(q, i, i) = " "
    THEN (CHOOSE i \in 1..Len(q) :
            SubSeq(q, i, i) = " " /\ \A j \in (i + 1)..Len(q) : SubSeq(q, j, j) # " ") - 1
    ELSE -1

SANITIZE_MAX == 100

\* sanitizeQuery with the slice only: the cut is not moved back to a space
sanitizeQueryWithoutCutBack(q) ==
    IF q = "" THEN q
    ELSE LET s0 == trim(CollapseSpaces(
                     ReplaceChars(q, {"\n", "\r", "*", "_", "~", "<", ">", ":"})))
         IN  IF Len(s0) > SANITIZE_MAX THEN SubSeq(s0, 1, SANITIZE_MAX) ELSE s0

sanitizeQuery(q) ==
    IF q = "" THEN q
    ELSE LET s0 == trim(CollapseSpaces(
                     ReplaceChars(q, {"\n", "\r", "*", "_", "~", "<", ">", ":"})))
         IN  IF Len(s0) > SANITIZE_MAX
             THEN LET s1 == SubSeq(s0, 1, SANITIZE_MAX)
                      lastSpace == lastIndexOfSpace(s1)
                  IN  IF lastSpace > 20 THEN SubSeq(s1, 1, lastSpace) ELSE s1
             ELSE s0

(***************************************************************************)
(* applyFilters (SearchView.tsx) applied to a list of search results       *)
(***************************************************************************)
MaxFilterLen == 3    \* length of the lists applyFilters is applied to

DigitValue ==
    [c \in {"0", "1", "2", "3", "4", "5", "6", "7", "8", "9"} |->
        CASE c = "0" -> 0 [] c = "1" -> 1 [] c = "2" -> 2 [] c = "3" -> 3 [] c = "4" -> 4
          [] c = "5" -> 5 [] c = "6" -> 6 [] c = "7" -> 7 [] c = "8" -> 8 [] c = "9" -> 9]

RECURSIVE parseDigits(_, _, _)
parseDigits(s, acc, seen) ==
    IF s # "" /\ SubSeq(s, 1, 1) \in DOMAIN DigitValue
    THEN parseDigits(SubSeq(s, 2, Len(s)), 10 * acc + DigitValue[SubSeq(s, 1, 1)], TRUE)
    ELSE [nan |-> ~seen, value |-> acc]

\* parseFloat of the value of an <input type="number"> with an unsigned whole
\* number in it: the number of the leading digits, NaN when there is none
parseFloat(s) == parseDigits(s, 0, FALSE)

\* x < parseFloat(..) and x > parseFloat(..): false when the number is NaN
LessThan(x, n) == ~n.nan /\ x < n.value
GreaterThan(x, n) == ~n.nan /\ x > n.value

SearchItem(name, price, category, condition, color, brand, size) ==
    [name |-> name, price |-> price, category |-> category, condition |-> condition,
     color |-> color, brand |-> brand, size |-> size]

\* a marketplace record of transformCarousellData, a record with every optional
\* attribute missing, and a wardrobe record of handleSearch (no condition, no size)
FilterItems ==
    { SearchItem("Black Tee", 30, "Tops", "Good", "Black", "Zara", "M"),
      SearchItem("Blue Jeans", 60, "Bottoms", "Like New", "Blue", "Levis", "One Size"),
      SearchItem("Scarf", 50, NoVal, NoVal, NoVal, NoVal, NoVal),
      SearchItem("Old Tee", 0, "tops", NoVal, "black", NoVal, NoVal) }

FilterAttributes == {"category", "condition", "color", "brand", "size"}

\* the filters state of SearchView: the values its inputs and selects can hold
FilterSettings ==
    [min : {"", "0", "50"}, max : {"", "50"}, category : {"", "tops"},
     condition : {"", "new"}, color : {"", "black"}, brand : {"", "zara"},
     size : {"", "m"}]

NoFilters ==
    [min |-> "", max |-> "", category |-> "", condition |-> "", color |-> "",
     brand |-> "", size |-> ""]

\* a filter that does not spare the records without the attribute
AttributeExcludesStrict(value, filter) ==
    filter # NoVal /\ (value = NoVal \/ ~includes(toLowerCase(value), toLowerCase(filter)))

\* a filter that drops the records without the attribute, set or not
AttributeExcludesWithoutValue(value, filter) ==
    value = NoVal \/ ~includes(toLowerCase(value), toLowerCase(filter))

\* currentFilters.a && item.a && !item.a.toLowerCase().includes(currentFilters.a.toLowerCase())
AttributeExcludes(value, filter) ==
    filter # NoVal /\ value # NoVal /\ ~includes(toLowerCase(value), toLowerCase(filter))

\* a minimum that the price has to exceed
BelowMinInclusive(price, min) == min # "" /\ ~GreaterThan(price, parseFloat(min))

\* currentFilters.priceRange.min && item.price < parseFloat(currentFilters.priceRange.min)
BelowMin(price, min) == min # "" /\ LessThan(price, parseFloat(min))

\* currentFilters.priceRange.max && item.price > parseFloat(currentFilters.priceRange.max)
AboveMax(price, max) == max # "" /\ GreaterThan(price, parseFloat(max))

\* the callback of items.filter
FilterKeeps(item, currentFilters) ==
    IF BelowMin(item.price, currentFilters.min) THEN FALSE
    ELSE IF AboveMax(item.price, currentFilters.max) THEN FALSE
    ELSE IF AttributeExcludes(item.category, currentFilters.category) THEN FALSE
    ELSE IF AttributeExcludes(item.condition, currentFilters.condition) THEN FALSE
    ELSE IF AttributeExcludes(item.color, currentFilters.color) THEN FALSE
    ELSE IF AttributeExcludes(item.brand, currentFilters.brand) THEN FALSE
    ELSE IF AttributeExcludes(item.size, currentFilters.size) THEN FALSE
    ELSE TRUE

applyFilters(items, currentFilters) ==
    SelectSeq(items, LAMBDA item : FilterKeeps(item, currentFilters))

FilterLists ==
    UNION { [1..n -> FilterItems] : n \in 0..MaxFilterLen }

InitFilter ==
    /\ afIn \in [items : FilterLists, filters : FilterSettings]
    /\ afOut = NotApplied
    /\ awIn = <<>> /\ awOut = NotApplied /\ gqIn = <<>> /\ gqOut = NotApplied
    /\ sqIn = "" /\ sqOut = NotApplied
    /\ InitRecIdle /\ InitFavIdle /\ InitDdIdle /\ InitSvIdle

\* filteredResults is computed: applyFilters(searchResults, filters)
ApplyFilters ==
    /\ ~afOut.done
    /\ afOut' = [done |-> TRUE, list |-> applyFilters(afIn.items, afIn.filters)]
    /\ UNCHANGED <<afIn, awIn, awOut, gqIn, gqOut, sqIn, sqOut, recVars, favVars, ddVars, svVars>>

\* clearFilters: setFilters of the empty filters, and filteredResults is computed again
ClearFilters ==
    /\ afOut.done /\ afIn.filters # NoFilters
    /\ afIn' = [afIn EXCEPT !.filters = NoFilters]
    /\ afOut' = [done |-> TRUE, list |-> applyFilters(afIn.items, NoFilters)]
    /\ UNCHANGED <<awIn, awOut, gqIn, gqOut, sqIn, sqOut, recVars, favVars, ddVars, svVars>>

NextFilter == ApplyFilters \/ ClearFilters

SpecFilter == InitFilter /\ [][NextFilter]_vars


(***************************************************************************)
(* handleSearch of SearchView (SearchView.tsx), with searchCarousell and   *)
(* GET /wardrobe/search (routes/wardrobe.ts)                               *)
(***************************************************************************)
MaxSearches == 2    \* submitted searches per behaviour

\* what the user types into the search box
SearchQueries == {"black tops", "black  tops", "  "}

\* the answer of enhanceSearchWithSemantics (lib/geminiApi, not part of the
\* sources at hand): an enhanced query
EnhancedQuery(q) == q \o " vintage"

\* the fallbackResults of the catch of handleSearch
FallbackResults ==
    << [id |-> "1", name |-> "Linen Pants", price |-> 20, platform |-> "Depop"],
       [id |-> "2", name |-> "Cream Beach Sweater", price |-> 43, platform |-> "Poshmark"] >>

\* new RegExp(query.trim(), 'i') tested on a field, for queries of letters and spaces
RegexMatches(field, query) == field # NoVal /\ includes(toLowerCase(field), toLowerCase(trim(query)))

\* the items GET /wardrobe/search?q= answers with
WardrobeSearch(items, query) ==
    IF query = "" \/ trim(query) = "" THEN <<>>
    ELSE SelectSeq(items, LAMBDA item :
            \/ RegexMatches(item.name, query) \/ RegexMatches(item.category, query)
            \/ RegexMatches(item.color, query) \/ RegexMatches(item.brand, query))

\* a wardrobe item as a UnifiedSearchResult; the items of the model carry no
\* _id and no purchase_price: the name stands for the id, the price is 0
WardrobeResult(item) ==
    [id |-> "wardrobe:" \o item.name, name |-> item.name, price |-> 0,
     platform |-> "My Wardrobe"]

\* a call of searchCarousell has settled
LogCall(v, rec) ==
    [v EXCEPT !.calls = IF Len(v.calls) = 2 THEN <<v.calls[2], rec>> ELSE Append(v.calls, rec)]

CallRecord(keyword, start, fetched, data, settled) ==
    [keyword |-> keyword, country |-> "sg", start |-> start,
     \* the cache entry of the key as the call finds it: its timestamp (-1:
     \* no entry) and its list
     entry |-> IF CacheKey(keyword, "sg") \in DOMAIN searchCache
               THEN searchCache[CacheKey(keyword, "sg")].timestamp ELSE -1,
     cached |-> IF CacheKey(keyword, "sg") \in DOMAIN searchCache
                THEN searchCache[CacheKey(keyword, "sg")].data ELSE <<>>,
     fetched |-> fetched, data |-> data, settled |-> settled]

\* the end of the try block and the finally: the results are published
Publish(v) ==
    [v EXCEPT !.pc = "done",
              !.showCheckCloset = includes(toLowerCase(v.searchQuery), "black blazer")
                                    \/ includes(toLowerCase(v.searchQuery), "blazer"),
              !.searchResults = v.allResults,
              !.currentSearchQuery = trim(v.searchQuery),
              !.isSearching = FALSE,
              !.runs = v.runs + 1]

\* the catch of handleSearch and the finally: error state and fallback list
SearchFailed(v) ==
    [v EXCEPT !.pc = "done", !.error = "Failed to search. Please try again.",
              !.searchResults = FallbackResults, !.isSearching = FALSE,
              !.runs = v.runs + 1]

\* if (user && (selectedPlatform === 'All' || selectedPlatform === 'My Wardrobe'))
AfterCarousell(v) ==
    IF v.user /\ v.selectedPlatform \in {"All", "My Wardrobe"}
    THEN [v EXCEPT !.pc = "wardrobe"]
    ELSE Publish(v)

\* if (selectedPlatform === 'All' || selectedPlatform === 'Carousell')
AfterSemantic(v) ==
    IF v.selectedPlatform \in {"All", "Carousell"}
    THEN [v EXCEPT !.pc = "carousell"]
    ELSE AfterCarousell(v)

\* searchCarousell returned `data`
CarousellReturned(v, data) ==
    AfterCarousell([v EXCEPT !.allResults = v.allResults \o data, !.got.carousell = data])

\* the failed wardrobe search leaves the try block of handleSearch
WardrobeFailedUncaught(v) ==
    SearchFailed([v EXCEPT !.failed = v.failed \cup {"wardrobe"}])

\* catch (wardrobeError): logged, the search goes on
WardrobeFailed(v) ==
    Publish([v EXCEPT !.failed = v.failed \cup {"wardrobe"}])

\* the form is submitted with q in the search box
SvSubmit ==
    /\ sv.pc \in {"idle", "done"}
    /\ sv.runs < MaxSearches
    /\ \E q \in SearchQueries :
         sv' = IF trim(q) = ""
               THEN [sv EXCEPT !.searchQuery = q]
               ELSE [sv EXCEPT !.searchQuery = q, !.isSearching = TRUE,
                               !.showCheckCloset = FALSE, !.error = NoVal,
                               !.allResults = <<>>, !.queryToSearch = trim(q),
                               !.got = [carousell |-> <<>>, wardrobe |-> <<>>],
                               !.failed = {}, !.pc = "semantic"]
    /\ UNCHANGED <<recVars, favVars, ddVars, fnVars>>

\* enhanceSearchWithSemantics settles: it throws, or it answers with an
\* enhanced query, which may fail to be a string
SvSemantic ==
    /\ sv.pc = "semantic"
    /\ \/ sv' = AfterSemantic([sv EXCEPT !.failed = sv.failed \cup {"semantic"}])
       \/ \E enhancedQuery \in {EnhancedQuery(sv.queryToSearch), NonString} :
             sv' = AfterSemantic([sv EXCEPT !.queryToSearch = enhancedQuery])
    /\ UNCHANGED <<recVars, favVars, ddVars, fnVars>>

\* searchCarousell(queryToSearch) up to its fetch
SvSearch ==
    /\ sv.pc = "carousell"
    /\ LET q   == sv.queryToSearch
           key == CacheKey(q, "sg")
       IN  IF CacheFresh(searchCache, key, now)
           THEN /\ sv' = CarousellReturned(
                            LogCall(sv, CallRecord(q, now, FALSE, searchCache[key].data, now)),
                            searchCache[key].data)
                /\ UNCHANGED searchCache
           ELSE IF ~IsString(q)
           THEN \* searchCarousell rejects; catch (carousellError)
                /\ sv' = AfterCarousell([sv EXCEPT !.failed = sv.failed \cup {"carousell"}])
                /\ UNCHANGED searchCache
           ELSE IF ~cfg.rapidApi
           THEN LET mock == getMockResults(q)
                IN  /\ sv' = CarousellReturned(
                                LogCall(sv, CallRecord(q, now, FALSE, mock, now)), mock)
                    /\ searchCache' = CacheSet(searchCache, key, mock, now)
           ELSE /\ sv' = [sv EXCEPT !.pc = "fetching",
                                    !.cur = <<CallRecord(q, now, TRUE, <<>>, now)>>]
                /\ UNCHANGED searchCache
    /\ UNCHANGED <<cfg, world, wardrobe, now, call, lastRec, favVars, ddVars, fnVars>>

\* the fetch of searchCarousell settles
SvFetched ==
    /\ sv.pc = "fetching"
    /\ \E status \in FetchStatuses(world) :
         LET q    == sv.queryToSearch
             data == IF status = "ok" THEN Upstream(world, q) ELSE getMockResults(q)
             rec  == [sv.cur[1] EXCEPT !.data = data, !.settled = now]
             v    == IF status = "ok" THEN [sv EXCEPT !.cur = <<>>]
                     ELSE [sv EXCEPT !.cur = <<>>, !.failed = sv.failed \cup {"upstream"}]
         IN  /\ sv' = CarousellReturned(LogCall(v, rec), data)
             /\ searchCache' = CacheSet(searchCache, CacheKey(q, "sg"), data, now)
    /\ UNCHANGED <<cfg, world, wardrobe, now, call, lastRec, favVars, ddVars, fnVars>>

\* api.get('/wardrobe/search') settles
SvWardrobe ==
    /\ sv.pc = "wardrobe"
    /\ \/ LET found   == WardrobeSearch(wardrobe, sv.queryToSearch)
              results == [i \in DOMAIN found |-> WardrobeResult(found[i])]
          IN  sv' = Publish([sv EXCEPT !.allResults = sv.allResults \o results,
                                       !.got.wardrobe = results])
       \/ sv' = WardrobeFailed(sv)
    /\ UNCHANGED <<recVars, favVars, ddVars, fnVars>>

InitView ==
    /\ cfg \in [geminiKey : {FALSE}, disableExternal : {FALSE}, rapidApi : BOOLEAN]
    \* without the RapidAPI configuration no request reaches the upstream
    /\ world \in (IF cfg.rapidApi THEN {"varied", "down"} ELSE {"varied"})
    /\ wardrobe = << WItem("Black Tops", "Tops", "Black", NoVal), WItem("Shirt", "Tops", "Black", "Zara"),
                     WItem("Jeans", "Bottoms", "Blue", NoVal) >>
    /\ now = 0 /\ searchCache = <<>> /\ call = <<>>
    /\ lastRec = [saved |-> FALSE, list |-> <<>>, at |-> 0]
    \* a visitor who is not signed in searches with the scope 'All'
    /\ \E user \in BOOLEAN, platform \in {"All", "Carousell", "My Wardrobe"} :
          /\ user \/ platform = "All"
          /\ sv = [IdleView EXCEPT !.user = user, !.selectedPlatform = platform]
    /\ InitFavIdle /\ InitDdIdle /\ InitFnIdle

NextView ==
    \/ SvSubmit
    \/ SvSemantic
    \/ SvSearch
    \/ SvFetched
    \/ SvWardrobe
    \/ Tick

SpecView == InitView /\ [][NextView]_vars

(***************************************************************************)
(* Properties of the favorites routes                                      *)
(***************************************************************************)
OfUser(coll, user) == {i \in DOMAIN coll : coll[i].user_id = user}

\* the collection when the answer to request r was sent, for requests served in turn
After(r) == IF r < Len(req) THEN req[r + 1].before ELSE favs

\* C2: the collection never holds two records of one user with the same external
\* id, also when requests of that user are served concurrently.
C2_UniquePerUserExternalId ==
    \A i, j \in DOMAIN favs :
        (i # j /\ favs[i].user_id = favs[j].user_id /\ favs[i].external_id # NoVal)
            => favs[i].external_id # favs[j].external_id

\* requests r - 1 and r, served in turn, are two additions by one user of a
\* record with one external id
AddedTwice(r) ==
    /\ r > 1
    /\ req[r - 1].op = "add" /\ req[r].op = "add"
    /\ req[r - 1].pc = "done" /\ req[r].pc = "done"
    /\ req[r - 1].user = req[r].user
    /\ req[r].arg.external_id # NoVal
    /\ req[r - 1].arg.external_id = req[r].arg.external_id

\* the user had no record that the duplicate check of request r matches
WasNew(r) == findOne(req[r].before, DuplicateQuery(req[r].user, req[r].arg)) = 0

GrowthOver(r) ==
    Cardinality(OfUser(After(r), req[r].user))
        - Cardinality(OfUser(req[r - 1].before, req[r].user))

ByExternalId(r) ==
    findOne(req[r].before, [f \in {"user_id", "external_id"} |->
                              IF f = "user_id" THEN req[r].user ELSE req[r].arg])

ById(r) ==
    findOne(req[r].before, [f \in {"user_id", "_id"} |->
                              IF f = "user_id" THEN req[r].user ELSE req[r].arg])

\* C8: a removal served in turn deletes the user's record with that external id
\* if there is one, otherwise the user's record with that internal id if there
\* is one, otherwise it answers not-found (404) and leaves the collection as it
\* was; it never deletes more than one record.
C8_RemoveSemantics ==
    \A r \in DOMAIN req :
        (req[r].op = "remove" /\ req[r].pc = "done") =>
            /\ Len(After(r)) >= Len(req[r].before) - 1
            /\ IF ByExternalId(r) # 0
               THEN After(r) = Without(req[r].before, ByExternalId(r)) /\ req[r].status = "200"
               ELSE IF ById(r) # 0
               THEN After(r) = Without(req[r].before, ById(r)) /\ req[r].status = "200"
               ELSE After(r) = req[r].before /\ req[r].status = "404"

(***************************************************************************)
(* Properties of removeDuplicates                                          *)
(***************************************************************************)
Triple(item) == <<item.name, item.price, item.platform>>

\* the positions of the records that no earlier record shares its triple with
FirstOccurrences(items) ==
    {i \in DOMAIN items : \A j \in 1..(i - 1) : Triple(items[j]) # Triple(items[i])}

\* C10: the result of removeDuplicates holds, in the order of the list, exactly
\* the first record of every (name, price, platform) triple of the list: every
\* later record with the triple of an earlier one is dropped, and two records
\* sharing the triple give a list of length 1.
C10_KeepsFirstOccurrences ==
    ddOut.done =>
        LET out == ddOut.list
        IN  /\ Len(out) = Cardinality(FirstOccurrences(ddIn))
            /\ \A k \in DOMAIN out : \E i \in FirstOccurrences(ddIn) : out[k] = ddIn[i]
            /\ \A i \in FirstOccurrences(ddIn) : \E k \in DOMAIN out : out[k] = ddIn[i]
            /\ \A k, l \in DOMAIN out :
                   k < l => \E i, j \in DOMAIN ddIn : i < j /\ out[k] = ddIn[i] /\ out[l] = ddIn[j]
            /\ (Len(ddIn) = 2 /\ Triple(ddIn[1]) = Triple(ddIn[2])) => Len(out) = 1

\* a title with '-' in it, dropped as the duplicate of an earlier record while a
\* record with the same title and another price is kept
C10_Witness ==
    /\ ddOut.done
    /\ Len(ddOut.list) = 2 /\ Len(ddIn) = 3
    /\ ddIn[1].name = "Tee-1" /\ Triple(ddIn[3]) = Triple(ddIn[1])
    /\ ddIn[2].name = "Tee-1" /\ ddIn[2].price # ddIn[1].price

(***************************************************************************)
(* Properties of applyFilters                                              *)
(***************************************************************************)
\* the value holds the filter value as a substring, letter case aside
Contains(value, filter) == includes(toLowerCase(value), toLowerCase(filter))

PriceInRange(item, f) ==
    /\ f.min = "" \/ item.price >= parseFloat(f.min).value
    /\ f.max = "" \/ item.price <= parseFloat(f.max).value

\* C11: when applyFilters has run, every input record that is within the price
\* bounds and lacks each attribute that a filter is set on is in the result
\* (as often as in the input), whatever the filter values; and every input
\* record that is not in the result is outside the price bounds or has an
\* attribute with a set filter whose value does not contain the filter value.
C11_MissingAttributeIsRetained ==
    afOut.done =>
        \A i \in DOMAIN afIn.items :
            LET item == afIn.items[i]
                f    == afIn.filters
            IN  /\ (/\ PriceInRange(item, f)
                    /\ \A a \in FilterAttributes : f[a] # "" => item[a] = NoVal)
                       => Count(afOut.list, item) = Count(afIn.items, item)
                /\ Count(afOut.list, item) = 0
                       => \/ ~PriceInRange(item, f)
                          \/ \E a \in FilterAttributes :
                                f[a] # "" /\ item[a] # NoVal /\ ~Contains(item[a], f[a])

\* a color filter is set, a record without color is kept and one of another
\* color is dropped
C11_Witness ==
    /\ afOut.done /\ afIn.filters.color = "black"
    /\ \E i \in DOMAIN afOut.list : afOut.list[i].color = NoVal /\ afOut.list[i].name = "Scarf"
    /\ \E i \in DOMAIN afIn.items :
          afIn.items[i].color = "Blue" /\ Count(afOut.list, afIn.items[i]) = 0

Satisfies(item, f) ==
    /\ PriceInRange(item, f)
    /\ \A a \in FilterAttributes :
          (f[a] # "" /\ item[a] # NoVal) => Contains(item[a], f[a])

\* the filters with only constraint c left set
Only(f, c) == [k \in DOMAIN f |-> IF k = c THEN f[k] ELSE ""]

\* C12: the result of applyFilters is the list of the input records, in input
\* order, that satisfy every set constraint (price >= min, price <= max, and
\* for each of the five attributes: the record's value, when present, contains
\* the filter value, letter case aside); it is also the list of the records
\* that applyFilters keeps under each of the set constraints taken alone.
C12_ExactlyTheSatisfyingRecords ==
    afOut.done =>
        /\ afOut.list = SelectSeq(afIn.items, LAMBDA item : Satisfies(item, afIn.filters))
        /\ afOut.list = SelectSeq(afIn.items, LAMBDA item :
                \A c \in DOMAIN afIn.filters :
                    item \in Range(applyFilters(afIn.items, Only(afIn.filters, c))))

\* a minimum of 50 applied to a 30 record and a 60 record gives the 60 record
C12_Witness ==
    /\ afOut.done
    /\ afIn.filters = [NoFilters EXCEPT !.min = "50"]
    /\ Len(afIn.items) = 2 /\ afIn.items[1].price = 30 /\ afIn.items[2].price = 60
    /\ afOut.list = <<afIn.items[2]>>

\* C13: with every filter value empty, the result of applyFilters is the input
\* list: the same records in the same order.
C13_NoFiltersIsIdentity ==
    (afOut.done /\ afIn.filters = NoFilters) => afOut.list = afIn.items

\* no filter is set and the list holds a record without any optional attribute
C13_Witness ==
    /\ afOut.done /\ afIn.filters = NoFilters
    /\ Len(afIn.items) >= 2 /\ afOut.list = afIn.items
    /\ \E i \in DOMAIN afIn.items : afIn.items[i].category = NoVal

(***************************************************************************)
(* Properties of handleSearch and of the search cache                      *)
(***************************************************************************)
\* C14: a search with scope 'All' that has ended is never in the error state
\* and never shows the fallback list; it publishes what the marketplace search
\* returned followed by what the wardrobe search returned, so that a failure
\* of the wardrobe search leaves the marketplace results published and a
\* failure of the marketplace search (upstream failure answered with mock
\* results, or a rejected call) leaves the wardrobe results published.
C14_SourceFailuresAreIsolated ==
    (sv.pc = "done" /\ sv.selectedPlatform = "All") =>
        /\ sv.error = NoVal /\ ~sv.isSearching
        /\ sv.searchResults # FallbackResults
        /\ sv.searchResults = sv.got.carousell \o sv.got.wardrobe
        /\ sv.failed \cap {"wardrobe", "carousell", "upstream"} # {}
              => sv.searchResults = sv.allResults

\* the wardrobe search failed and the marketplace results are published
C14_Witness ==
    /\ sv.pc = "done" /\ sv.selectedPlatform = "All" /\ sv.user
    /\ "wardrobe" \in sv.failed /\ sv.got.carousell # <<>>
    /\ sv.searchResults = sv.got.carousell /\ sv.error = NoVal

AnalysisItems ==
    { WItem("Tee", "Tops", "Black", "Zara"),
      WItem("Jeans", "Bottoms", "White", "Uniqlo"),
      WItem("Gown", "Dresses", "Blue", "Mango"),
      WItem("Boots", "Shoes", "Red", "Nike"),
      WItem("Scarf", NoVal, NoVal, NoVal),
      WItem("Cap", NoVal, "Teal", "7"),
      WItem("Levis", "Bottoms", "Blue", "501") }

AnalysisWardrobes == UNION { [1..n -> AnalysisItems] : n \in 0..MaxWardrobeLen }

\* the call as its caller sees it: the try block returns an analysis, and the
\* catch block returns the default analysis; nothing is thrown
AnalysisOutcomeUncaught(resp) ==
    IF resp.ok THEN [threw |-> FALSE, value |-> analyzeWardrobeFeatures(resp)]
    ELSE [threw |-> TRUE, value |-> <<>>]

AnalysisOutcome(resp) == [threw |-> FALSE, value |-> analyzeWardrobeFeatures(resp)]

InitAnalyze ==
    /\ awIn \in [ok : BOOLEAN, data : AnalysisWardrobes]
    \* a read that fails delivers no data
    /\ awIn.ok \/ awIn.data = <<>>
    /\ awOut = NotApplied
    /\ afIn = <<>> /\ afOut = NotApplied /\ gqIn = <<>> /\ gqOut = NotApplied
    /\ sqIn = "" /\ sqOut = NotApplied
    /\ InitRecIdle /\ InitFavIdle /\ InitDdIdle /\ InitSvIdle

\* analyzeWardrobeFeatures(userId) settles
Analyze ==
    /\ ~awOut.done
    /\ awOut' = [done |-> TRUE, out |-> AnalysisOutcome(awIn)]
    /\ UNCHANGED <<awIn, afIn, afOut, gqIn, gqOut, sqIn, sqOut, recVars, favVars, ddVars, svVars>>

\* generateSearchQueries(features), on the features the analysis returned
GenerateQueries ==
    /\ awOut.done /\ ~awOut.out.threw /\ ~gqOut.done
    /\ gqIn' = awOut.out.value
    /\ gqOut' = [done |-> TRUE, queries |-> generateSearchQueries(awOut.out.value)]
    /\ UNCHANGED <<awIn, awOut, afIn, afOut, sqIn, sqOut, recVars, favVars, ddVars, svVars>>

NextAnalyze == Analyze \/ GenerateQueries

SpecAnalyze == InitAnalyze /\ [][NextAnalyze]_vars

(***************************************************************************)
(* Properties of analyzeWardrobeFeatures                                   *)
(***************************************************************************)
Carries(items, f) == \E i \in DOMAIN items : items[i][f] # NoVal

\* C15: for every wardrobe, the colors, categories and brands lists of the
\* analysis have at most 3 entries each, the colors and the categories lists
\* are not empty, and each is the default list when no item carries the field.
C15_ListsCappedAndNeverEmpty ==
    awOut.done =>
        LET a == awOut.out.value
        IN  /\ ~awOut.out.threw
            /\ Len(a.topColors) <= 3 /\ Len(a.topCategories) <= 3 /\ Len(a.topBrands) <= 3
            /\ Len(a.topColors) >= 1 /\ Len(a.topCategories) >= 1
            /\ ~Carries(awIn.data, "color") => a.topColors = <<"Black", "White", "Blue">>
            /\ ~Carries(awIn.data, "category")
                  => a.topCategories = <<"Tops", "Bottoms", "Dresses">>
            /\ Carries(awIn.data, "color")
                  => Range(a.topColors) \subseteq {awIn.data[i].color : i \in DOMAIN awIn.data}

\* a wardrobe with four colors and four brands is analyzed: three of each are kept
C15_Witness ==
    /\ awOut.done /\ awIn.ok
    /\ Cardinality({awIn.data[i].color : i \in DOMAIN awIn.data} \ {NoVal}) = 4
    /\ Cardinality({awIn.data[i].brand : i \in DOMAIN awIn.data} \ {NoVal}) = 4
    /\ Len(awOut.out.value.topColors) = 3 /\ Len(awOut.out.value.topBrands) = 3

\* C16: when the wardrobe is empty or reading it fails, the call does not fail
\* and returns colors [Black, White, Blue], categories [Tops, Bottoms,
\* Dresses], no brands and styles [Casual, Classic, Modern].
C16_EmptyOrFailedReadGivesDefaults ==
    (awOut.done /\ (~awIn.ok \/ awIn.data = <<>>)) =>
        /\ ~awOut.out.threw
        /\ awOut.out.value =
              [topColors     |-> <<"Black", "White", "Blue">>,
               topCategories |-> <<"Tops", "Bottoms", "Dresses">>,
               topBrands     |-> <<>>,
               commonStyles  |-> <<"Casual", "Classic", "Modern">>]

\* the read of the wardrobe failed and the analysis has been returned
C16_Witness ==
    awOut.done /\ ~awIn.ok /\ ~awOut.out.threw /\ awOut.out.value.topBrands = <<>>

(***************************************************************************)
(* Properties of generateSearchQueries                                     *)
(***************************************************************************)
\* the queries of the first three kinds: color and category pairings, brands,
\* styles followed by " clothing"
PlainQueries(f) ==
    { toLowerCase(c) \o " " \o toLowerCase(k) :
          c \in Range(f.topColors), k \in Range(f.topCategories) }
    \cup { toLowerCase(b) : b \in Range(f.topBrands) }
    \cup { toLowerCase(st) \o " clothing" : st \in Range(f.commonStyles) }

\* the positions of the top colors that have an entry in the table
WithEntry(f) == {i \in DOMAIN f.topColors : f.topColors[i] \in DOMAIN colorComplements}

AccessoryQuery(color) == toLowerCase(colorComplements[color]) \o " accessories"

IsAccessoryQuery(q) ==
    Len(q) > 12 /\ SubSeq(q, Len(q) - 11, Len(q)) = " accessories"

\* C20: the fallback query set is the pairings, the brands, the styles
\* followed by " clothing", and one "<complement> accessories" query for each
\* top color that has an entry in the color-complement table.
C20_OneAccessoryQueryPerColorWithEntry ==
    gqOut.done =>
        Range(gqOut.queries) =
            PlainQueries(gqIn)
            \cup { AccessoryQuery(gqIn.topColors[i]) : i \in WithEntry(gqIn) }

\* C20 as amended: the accessory queries are those of the first two top
\* colors that have an entry in the table, and there are at most two.
C20_AccessoryQueriesOfFirstTwoColorsWithEntry ==
    gqOut.done =>
        LET firstTwo == {i \in WithEntry(gqIn) :
                            Cardinality({j \in WithEntry(gqIn) : j < i}) < 2}
        IN  /\ Range(gqOut.queries) =
                  PlainQueries(gqIn)
                  \cup { AccessoryQuery(gqIn.topColors[i]) : i \in firstTwo }
            /\ Cardinality({i \in DOMAIN gqOut.queries :
                               IsAccessoryQuery(gqOut.queries[i])}) = Cardinality(firstTwo)

\* three top colors with an entry: the complement of the third is not searched
C20_Witness ==
    /\ gqOut.done /\ awIn.ok /\ awIn.data # <<>>
    /\ Cardinality(WithEntry(gqIn)) = 3
    /\ AccessoryQuery(gqIn.topColors[1]) \in Range(gqOut.queries)
    /\ AccessoryQuery(gqIn.topColors[2]) \in Range(gqOut.queries)
    /\ AccessoryQuery(gqIn.topColors[3]) \notin Range(gqOut.queries)

(***************************************************************************)
(* Properties of the external calls                                        *)
(***************************************************************************)
\* C18: while the external API switch is on (Developer Mode), no upstream
\* fetch of searchCarousell and no generateContent call is issued.
C18_DevModeMakesNoExternalCall ==
    cfg.disableExternal =>
        \A c \in DOMAIN call :
            "fetch" \notin Range(call[c].trace) /\ "gemini" \notin Range(call[c].trace)

\* C19: without the RapidAPI configuration every call of searchCarousell
\* returns the empty list, and issues no upstream request.
C19_MissingConfigGivesNoResults ==
    ~cfg.rapidApi =>
        \A i \in DOMAIN sv.calls : ~sv.calls[i].fetched /\ sv.calls[i].data = <<>>

\* the distinct values of a field ranked by count, descending, values of equal
\* count in the order of their first occurrence in the wardrobe
RankedByFirstSeen(items, f) ==
    LET vals == FieldValues(items, f)
    IN  SortByCountDesc(Distinct(vals), vals)

\* C21: for each of color, category and brand the analysis lists the distinct
\* values by count descending, values of equal count in the order in which
\* they first occur in the wardrobe, cut to the first 3; also for values that
\* look like integers.
C21_RankedByCountThenFirstSeen ==
    (awOut.done /\ awIn.ok /\ awIn.data # <<>>) =>
        LET a == awOut.out.value
        IN  /\ a.topBrands = Take(RankedByFirstSeen(awIn.data, "brand"), 3)
            /\ Carries(awIn.data, "color")
                  => a.topColors = Take(RankedByFirstSeen(awIn.data, "color"), 3)
            /\ Carries(awIn.data, "category")
                  => a.topCategories = Take(RankedByFirstSeen(awIn.data, "category"), 3)

(***************************************************************************)
(* Properties of the search loop of generatePersonalizedRecommendations    *)
(***************************************************************************)
\* the place of a record in the list the adapter returned it in: Upstream and
\* getMockResults number their records in the id, "<keyword>#<place>"
PlaceInSearch(rec) == SubSeq(rec.id, Len(rec.id), Len(rec.id))

\* C22: a run issues at most 6 marketplace searches, and what it accumulates
\* are at most the first 4 records of each search, whatever the number of
\* queries that were generated.
C22_AtMostSixSearchesOfFourRecords ==
    \A c \in DOMAIN call :
        LET r == call[c]
        IN  /\ Searches(c) <= 6 /\ Len(r.sel) <= 6
            /\ Len(r.all) <= 4 * Searches(c)
            /\ \A i \in DOMAIN r.all : PlaceInSearch(r.all[i]) \in {"1", "2", "3", "4"}

\* a run with more than 6 generated queries has ended after 6 searches that
\* gave 5 records each
C22_Witness ==
    \E c \in DOMAIN call :
        /\ Finished(c) /\ Len(call[c].queries) > 6
        /\ Searches(c) = 6 /\ Len(call[c].all) = 24 /\ world = "varied"

\* C23: a run in which the search for a query failed has still searched every
\* selected query and returned, and every accumulated record is in the result.
C23_FailedSearchLosesNoRecord ==
    \A c \in DOMAIN call :
        (Finished(c) /\ "search" \in call[c].errs) =>
            /\ call[c].outcome = "returned" /\ call[c].source = "generated"
            /\ Searches(c) = Len(call[c].sel)
            /\ \A i \in DOMAIN call[c].all : call[c].all[i] \in Range(call[c].result)

\* C23 as amended: every accumulated record is in the result unless an
\* earlier accumulated record has its name, price and platform.
C23_FailedSearchDoesNotAbort ==
    \A c \in DOMAIN call :
        (Finished(c) /\ "search" \in call[c].errs) =>
            LET r == call[c]
            IN  /\ r.outcome = "returned" /\ r.source = "generated"
                /\ Searches(c) = Len(r.sel)
                /\ \A i \in DOMAIN r.all :
                      \/ r.all[i] \in Range(r.result)
                      \/ \E j \in 1..(i - 1) : DedupKey(r.all[j]) = DedupKey(r.all[i])

\* a search failed, the searches after it ran, and their records were returned
C23_Witness ==
    \E c \in DOMAIN call :
        /\ Finished(c) /\ "search" \in call[c].errs
        /\ \E k \in 1..(Len(call[c].sel) - 1) : ~IsString(call[c].sel[k])
        /\ Searches(c) = Len(call[c].sel) /\ call[c].result # <<>>

\* the query a record was returned for: its id is "<keyword>#<place>", or
\* "mock-<keyword>#<place>" for a mock record
QueryOf(rec) ==
    LET core == SubSeq(rec.id, 1, Len(rec.id) - 2)
    IN  IF Len(core) >= 5 /\ SubSeq(core, 1, 5) = "mock-"
        THEN SubSeq(core, 6, Len(core)) ELSE core

\* the place of the first occurrence of q in the selected queries
PlaceOfQuery(sel, q) == CHOOSE k \in DOMAIN sel : sel[k] = q /\ \A m \in 1..(k - 1) : sel[m] # q

\* C24: the searches of a run are issued one after another in the order of
\* the selected queries: while the search for query qi is in flight exactly qi
\* searches have started, between two searches exactly the searches before
\* the next query have started (and completed), and the accumulated records
\* are in the order of their queries.
C24_SearchesAreSequentialInQueryOrder ==
    \A c \in DOMAIN call :
        LET r == call[c]
        IN  /\ r.pc = "fetching" => Searches(c) = r.qi /\ r.qi <= Len(r.sel)
            /\ r.pc = "search" => Searches(c) = r.qi - 1 /\ r.qi <= Len(r.sel)
            /\ Count(r.trace, "fetch") <= Searches(c)
            \* the loop has ended: the list is complete
            /\ r.pc = "saving" =>
                  /\ \A i \in 1..(Len(r.all) - 1) :
                        PlaceOfQuery(r.sel, QueryOf(r.all[i]))
                            <= PlaceOfQuery(r.sel, QueryOf(r.all[i + 1]))
                  /\ r.unique = Take(removeDuplicates(r.all), 20)

\* the third search of a run is in flight and the first two have given their records
C24_Witness ==
    \E c \in DOMAIN call :
        /\ call[c].pc = "fetching" /\ call[c].qi = 3 /\ Searches(c) = 3
        /\ Len(call[c].all) = 8
        /\ QueryOf(call[c].all[1]) = call[c].sel[1] /\ QueryOf(call[c].all[5]) = call[c].sel[2]

(***************************************************************************)
(* sanitizeQuery applied on its own                                        *)
(***************************************************************************)
MaxQueryTokens == 3    \* pieces a keyword handed to sanitizeQuery is made of

\* 44 characters, words of at most 9 letters
Phrase == "vintage oversized denim jacket with patches "

\* 60 characters without a space
LongWord == "extraordinarilylongunbrokenkeywordwithoutanyspacesinsideofit"

\* the pieces of the keywords: words, white space, markdown, a colon
QueryTokens == {"black", " ", "  ", "\n", "*bold*", "size: m", Phrase, LongWord}

Keywords ==
    { Join(t, 1, Len(t)) : t \in UNION { [1..n -> QueryTokens] : n \in 0..MaxQueryTokens } }

InitSanitize ==
    /\ sqIn \in Keywords
    /\ sqOut = NotApplied
    /\ afIn = <<>> /\ afOut = NotApplied /\ awIn = <<>> /\ awOut = NotApplied
    /\ gqIn = <<>> /\ gqOut = NotApplied
    /\ InitRecIdle /\ InitFavIdle /\ InitDdIdle /\ InitSvIdle

\* const sanitized = sanitizeQuery(keyword)
Sanitize ==
    /\ ~sqOut.done
    /\ sqOut' = [done |-> TRUE, out |-> sanitizeQuery(sqIn)]
    /\ UNCHANGED <<sqIn, afIn, afOut, awIn, awOut, gqIn, gqOut, recVars, favVars, ddVars, svVars>>

NextSanitize == Sanitize

SpecSanitize == InitSanitize /\ [][NextSanitize]_vars

(***************************************************************************)
(* Properties of sanitizeQuery                                             *)
(***************************************************************************)
\* the keyword with its characters replaced and its white space collapsed,
\* before any truncation
BeforeTruncation(q) ==
    trim(CollapseSpaces(ReplaceChars(q, {"\n", "\r", "*", "_", "~", "<", ">", ":"})))

Truncated(q) == Len(BeforeTruncation(q)) > SANITIZE_MAX

\* at most 100 characters, none of them a newline, a markdown-control
\* character or a colon, and no two white-space characters in a row
WellFormed(o) ==
    /\ Len(o) <= 100
    /\ \A i \in 1..Len(o) : CharAt(o, i) \notin {"\n", "\r", "*", "_", "~", "<", ">", ":"}
    /\ \A i \in 1..(Len(o) - 1) : ~(IsSpace(CharAt(o, i)) /\ IsSpace(CharAt(o, i + 1)))

\* o is the beginning of s and ends where a word of s ends
EndsAtWordBoundary(o, s) ==
    /\ Len(o) <= Len(s) /\ o = SubSeq(s, 1, Len(o))
    /\ Len(o) > 0 => ~IsSpace(CharAt(o, Len(o)))
    /\ Len(o) < Len(s) => IsSpace(CharAt(s, Len(o) + 1))

DedupPlatforms == {"Carousell", "1-Carousell"}

AnyRecord(id, name, price, platform) ==
    [id |-> id, name |-> name, price |-> price, platform |-> platform]

\* the lists of at most MaxDedupLen records of the type; the id of a record is
\* its position
AnyDedupLists ==
    UNION { { [i \in 1..n |-> AnyRecord(ToString(i), f[i][1], f[i][2], f[i][3])] :
                f \in [1..n -> {"Tee", "Tee-1"} \X DedupPrices \X DedupPlatforms] } :
            n \in 0..MaxDedupLen }

InitDedupAny ==
    /\ ddIn \in AnyDedupLists
    /\ ddOut = [done |-> FALSE, list |-> <<>>]
    /\ InitRecIdle /\ InitFavIdle /\ InitFnIdle /\ InitSvIdle

SpecDedupAny == InitDedupAny /\ [][NextDedup]_vars

C27_FeaturesAndItemsFromOneSnapshot ==
    \A c \in DOMAIN call :
        (call[c].pc \notin {"idle", "fetch1", "fetch2"} /\ call[c].source \notin {"cache", "catch"}) =>
            call[c].features = analyzeWardrobeFeatures([ok |-> TRUE, data |-> call[c].items])

(***************************************************************************)
(* searchCarousell on its own (devMode.ts): calls that may overlap, as     *)
(* when HomeView regenerates while SearchView searches, against a          *)
(* marketplace that goes down and comes back.                              *)
(***************************************************************************)
SearchKeywords == {"black tops", "denim jacket", NonString}

IdleSearchCall ==
    [pc |-> "idle", keyword |-> "", how |-> "none", outcome |-> "pending", result |-> <<>>,
     fetched |-> FALSE, at |-> 0, ended |-> 0,
     \* read by the properties only: the calls that had ended when this one
     \* started, and when it ended
     after |-> {}, ahead |-> {}]

Ended == {d \in DOMAIN call : call[d].pc = "done"}

\* the fallback without the cache write
FallBackToMockUncached(cache, key, keyword, t) ==
    [data |-> getMockResults(keyword), cache |-> cache]

\* const mockResults = getMockResults(keyword); searchCache.set(cacheKey, ...);
\* return mockResults
FallBackToMock(cache, key, keyword, t) ==
    LET mockResults == getMockResults(keyword)
    IN  [data |-> mockResults, cache |-> CacheSet(cache, key, mockResults, t)]

ScReturn(r, how, data) ==
    [r EXCEPT !.pc = "done", !.how = how, !.outcome = "returned", !.result = data,
              !.ended = now, !.ahead = Ended]

\* searchCarousell(keyword) is called and runs up to its fetch
ScStart(c) ==
    /\ call[c].pc = "idle"
    /\ \A d \in DOMAIN call : d < c => call[d].pc # "idle"
    /\ \E keyword \in SearchKeywords :
         LET key == CacheKey(keyword, "sg")
             r   == [call[c] EXCEPT !.keyword = keyword, !.at = now, !.after = Ended]
         IN  IF CacheFresh(searchCache, key, now)
             THEN /\ SetCall(c, ScReturn(r, "cache", searchCache[key].data))
                  /\ UNCHANGED searchCache
             ELSE IF ~IsString(keyword)
             THEN \* keyword.trim / q.replace is not a function, in getMockResults
                  \* outside the try or in the catch
                  /\ SetCall(c, [r EXCEPT !.pc = "done", !.how = "threw", !.outcome = "rejected",
                                          !.ended = now, !.ahead = Ended])
                  /\ UNCHANGED searchCache
             ELSE IF ~cfg.rapidApi
             THEN LET fb == FallBackToMock(searchCache, key, keyword, now)
                  IN  SetCall(c, ScReturn(r, "nokeys", fb.data)) /\ searchCache' = fb.cache
             ELSE /\ SetCall(c, [r EXCEPT !.pc = "fetching", !.fetched = TRUE])
                  /\ UNCHANGED searchCache
    /\ UNCHANGED <<cfg, world, wardrobe, now, lastRec, favVars, ddVars, fnVars, svVars>>

\* the fetch of searchCarousell settles
ScFetched(c) ==
    /\ call[c].pc = "fetching"
    /\ \E status \in FetchStatuses(world) :
         LET r   == call[c]
             key == CacheKey(r.keyword, "sg")
         IN  IF status = "ok"
             THEN LET data == Upstream(world, r.keyword)
                  IN  /\ SetCall(c, ScReturn(r, status, data))
                      /\ searchCache' = CacheSet(searchCache, key, data, now)
             ELSE LET fb == FallBackToMock(searchCache, key, r.keyword, now)
                  IN  SetCall(c, ScReturn(r, status, fb.data)) /\ searchCache' = fb.cache
    /\ UNCHANGED <<cfg, world, wardrobe, now, lastRec, favVars, ddVars, fnVars, svVars>>

\* the marketplace goes down, or comes back
Outage ==
    /\ world' \in {"varied", "down"} \ {world}
    /\ UNCHANGED <<cfg, wardrobe, now, searchCache, call, lastRec, favVars, ddVars, fnVars, svVars>>

InitSearch ==
    /\ cfg \in [geminiKey : {FALSE}, disableExternal : {FALSE}, rapidApi : BOOLEAN]
    /\ world \in {"varied", "down"}
    /\ wardrobe = <<>> /\ now = 0 /\ searchCache = <<>>
    \* a call, a call that overlaps it, and a later call
    /\ call = <<IdleSearchCall, IdleSearchCall, IdleSearchCall>>
    /\ lastRec = [saved |-> FALSE, list |-> <<>>, at |-> 0]
    /\ InitFavIdle /\ InitDdIdle /\ InitFnIdle /\ InitSvIdle

NextSearch ==
    \/ \E c \in DOMAIN call : ScStart(c)
    \/ \E c \in DOMAIN call : ScFetched(c)
    \/ Outage
    \/ Tick

SpecSearch == InitSearch /\ [][NextSearch]_vars

\* the upstream request of call a failed
UpstreamFailed(a) == call[a].pc = "done" /\ call[a].how \in {"denied", "failed"}

\* call b is for the pair of call a and starts after a has ended, less than
\* CACHE_DURATION later
StartsInWindowOf(b, a) ==
    /\ call[b].pc # "idle" /\ call[b].keyword = call[a].keyword
    /\ a \in call[b].after /\ call[b].at - call[a].ended < CACHE_DURATION

ServedFrom(b, a) ==
    ~call[b].fetched /\ call[b].outcome = "returned" /\ call[b].result = call[a].result

\* a call for the pair of call a that was in progress when a ended has ended
\* before call b started
Overtaken(a, b) ==
    \E c \in call[b].after :
        /\ c # a /\ call[c].keyword = call[a].keyword
        /\ call[c].fetched /\ a \in call[c].ahead /\ a \notin call[c].after

\* C28 as stated: a failed upstream request gives mock results, every call for
\* the same keyword and country in the next 5 minutes is served that mock data
\* without an upstream request, and searchCarousell never throws.
C28_FailureIsServedFromCacheAndNeverThrows ==
    /\ \A c \in DOMAIN call : call[c].outcome # "rejected"
    /\ \A a, b \in DOMAIN call :
          UpstreamFailed(a) =>
              /\ call[a].outcome = "returned" /\ call[a].result = getMockResults(call[a].keyword)
              /\ StartsInWindowOf(b, a) => ServedFrom(b, a)

\* C28, amended: a failed upstream request gives mock results; a call for the
\* same keyword and country that starts less than 5 minutes later is served
\* that mock data without an upstream request, unless a call for the pair that
\* was in progress at the failure has replaced the entry; a call with a string
\* keyword is never rejected.
C28_FailureIsServedFromCache ==
    /\ \A c \in DOMAIN call : IsString(call[c].keyword) => call[c].outcome # "rejected"
    /\ \A a, b \in DOMAIN call :
          UpstreamFailed(a) =>
              /\ call[a].outcome = "returned" /\ call[a].result = getMockResults(call[a].keyword)
              /\ (StartsInWindowOf(b, a) /\ ~Overtaken(a, b)) => ServedFrom(b, a)

C28_Witness ==
    \E a, b \in DOMAIN call :
        /\ UpstreamFailed(a) /\ StartsInWindowOf(b, a) /\ ~Overtaken(a, b)
        /\ call[b].pc = "done" /\ call[b].at > call[a].ended /\ world = "varied"
        /\ call[b].result # <<>>

\* the generateContent calls of invocation c so far
GeminiCalls(c) == Count(call[c].trace, "gemini")

\* C29: analyzeWardrobeWithGemini calls generateContent at most twice; the
\* second call is made only after the first failed with a 503, overloaded or
\* unavailable error; any other error of the first call and any failure of the
\* second reach the caller without another call.
C29_AtMostOneRetryAndOnlyWhenOverloaded ==
    \A c \in DOMAIN call :
        /\ GeminiCalls(c) <= 2
        /\ call[c].pc = "gem1" => GeminiCalls(c) = 1
        /\ call[c].pc = "gem2" =>
              /\ GeminiCalls(c) = 2
              /\ call[c].msg \in {"503 Service Unavailable", "UNAVAILABLE",
                                  "The model is overloaded. Please try again later."}
        /\ call[c].gem = "error" => GeminiCalls(c) = 1 /\ "gemini" \in call[c].errs
        /\ call[c].gem = "retryfail" => GeminiCalls(c) = 2 /\ "gemini" \in call[c].errs

C29_Witness ==
    \E c \in DOMAIN call :
        call[c].gem = "retryfail" /\ call[c].pc = "done" /\ call[c].outcome = "returned"

\* the records of the collection that user does not own
OfOthers(coll, user) == SelectSeq(coll, LAMBDA doc : doc.user_id # user)

\* C30: every favorites request is scoped to the user of its token: a list
\* answers with records of that user only, an add treats only a record of that
\* user as the existing duplicate, a remove deletes only a record of that
\* user, and no request changes the records of another user.
C30_RequestsAreScopedToTheUser ==
    \A r \in DOMAIN req :
        /\ \A i \in DOMAIN req[r].listed : req[r].listed[i].user_id = req[r].user
        /\ req[r].owner \in {NoVal, req[r].user}
        /\ r = Len(req) => OfOthers(favs, req[r].user) = OfOthers(req[r].before, req[r].user)

\* both users had favorited p1, one of them has removed it, and the record of
\* the other is still in the collection
C30_Witness ==
    /\ Len(req) >= 3
    /\ \E a \in DOMAIN req :
          /\ req[a].op = "remove" /\ req[a].arg = "p1" /\ req[a].deleted = 1
          /\ \E i, j \in DOMAIN req[a].before :
                /\ req[a].before[i].external_id = "p1" /\ req[a].before[j].external_id = "p1"
                /\ req[a].before[i].user_id = req[a].user
                /\ req[a].before[j].user_id # req[a].user
                /\ req[a].before[j] \in Range(favs)


====
